---- MODULE Spec2Model ----
(***************************************************************************)
(* Model of the parallel CFR engine (PCfrSolver), its Discounted-CFR       *)
(* trainable and the training driver.                                      *)
(*                                                                         *)
(* A float is the integer that its 32 bits spell without the sign bit,      *)
(* negated for a negative float: the floats keep their order, the next     *)
(* float is the next integer, +0 and -0 are both 0, 1.0f is 127 * 2^23.    *)
(* The operations round as IEEE-754 does.  Vectors are functions over      *)
(* 0..n-1, indexed as in the C++ code.                                     *)
(***************************************************************************)
EXTENDS Integers, Sequences, FiniteSets, TLC

VARIABLES
    pc,                \* position of train(): "setup", "cfr", "run", "region", "probe", "done"
    cfg,               \* constructor arguments of the solver (fixed after Init)
    ranges,            \* PCfrSolver::ranges[player]: the hands off the initial board
    color_iso_offset,  \* PCfrSolver::color_iso_offset[deal][suit]
    trainables,        \* action node |-> deal |-> DiscountedCfrTrainable state
    rand_state,        \* hidden state of std::rand()
    iter,              \* loop variable i of train()
    player_id,         \* inner loop variable of train()
    calls,             \* root cfr calls started so far, in order
    stack,             \* the call chain of the running traversal, innermost frame last
    trace,             \* trainable accesses of the last root cfr call, in order
    root_result,       \* CfrResult returned by the last root cfr call
    prev,              \* trainables as they were when the last root cfr call began
    first_print,       \* whether printExploitability(root, 0, ...) ran before the loop
    probes,            \* exploitability probes made in the loop: <<iteration, value>>
    logfile,           \* lines written to the log file
    par,               \* one parallel region of chanceUtility run thread by thread (ParSpec only)
    sched              \* rand() % 4 values the running parallel region hands its nested calls

vars == <<pc, cfg, ranges, color_iso_offset, trainables, rand_state, iter, player_id, calls,
          stack, trace, root_result, prev, first_print, probes, logfile, par, sched>>

-----------------------------------------------------------------------------
(* Bounds of the model *)

NumRanks == 3          \* ranks in the deck; the deck has 4 * NumRanks cards
MaxIterations == 3     \* largest iteration_number tried
NumThreads == 2         \* num_threads of the runs with a team of threads
TeamIterations == 1     \* iteration_number of the runs of train() with a team of threads
RegionIterations == 2   \* iteration_number of the runs whose regions are run thread by thread

-----------------------------------------------------------------------------
(* float arithmetic: IEEE-754 binary32, every operation rounded to nearest, ties to even *)

Pow2(k) == 2 ^ k

RECURSIVE BitLen(_)
\* the number of bits of m: 0 for 0, else the position of the leading 1
BitLen(m) ==
    IF m >= 65536 THEN 16 + BitLen(m \div 65536)
    ELSE IF m >= 256 THEN 8 + BitLen(m \div 256)
    ELSE IF m >= 16 THEN 4 + BitLen(m \div 16)
    ELSE IF m >= 4 THEN 2 + BitLen(m \div 4)
    ELSE IF m >= 2 THEN 2
    ELSE m

\* x >> d, the lowest bit of the result set when a 1 was shifted out
ShiftRightJam(x, d) ==
    IF d = 0 THEN x
    ELSE IF d > 30 THEN (IF x = 0 THEN 0 ELSE 1)
    ELSE IF x % Pow2(d) # 0 /\ (x \div Pow2(d)) % 2 = 0 THEN x \div Pow2(d) + 1
    ELSE x \div Pow2(d)

\* the bit patterns 0x7f800000 and 0x7fc00000
Infinity == 2139095040
NaN == 2143289344
IsNaN(a) == a > Infinity \/ a < -Infinity
FAbs(a) == IF a < 0 THEN -a ELSE a

\* a subnormal fraction F of n bits, normalised
Normalised(F, n) == [m |-> F * Pow2(24 - n), e |-> n - 173]

\* significand and exponent of a finite float that is not 0: |a| = m * 2^e with
\* 2^23 <= m < 2^24, the subnormal floats normalised
Unpack(a) ==
    IF FAbs(a) < Pow2(23) THEN Normalised(FAbs(a), BitLen(FAbs(a)))
    ELSE [m |-> (FAbs(a) % Pow2(23)) + Pow2(23), e |-> (FAbs(a) \div Pow2(23)) - 150]

\* m >> drop rounded to nearest, ties to even; m << -drop when drop <= 0
RoundShift(m, drop) ==
    IF drop <= 0 THEN m * Pow2(-drop)
    ELSE IF m % Pow2(drop) > Pow2(drop - 1)
            \/ (m % Pow2(drop) = Pow2(drop - 1) /\ (m \div Pow2(drop)) % 2 = 1)
    THEN m \div Pow2(drop) + 1
    ELSE m \div Pow2(drop)

\* the float of exponent field `field` and significand r, whose carry out of 24 bits moves
\* into the exponent
Pack(neg, field, r) ==
    IF field + r \div Pow2(23) >= 255 THEN (IF neg THEN -Infinity ELSE Infinity)
    ELSE IF neg THEN -(field * Pow2(23) + r)
    ELSE field * Pow2(23) + r

\* m * 2^e with the drop lowest bits of m rounded away
PackDrop(neg, m, e, drop) == Pack(neg, e + drop + 149, RoundShift(m, drop))

\* RoundPack for an m of n > 0 bits: 24 bits are kept, fewer when the result is subnormal
PackBits(neg, m, e, n) ==
    IF e + n < -149 THEN 0
    ELSE PackDrop(neg, m, e, IF e + n - 24 >= -149 THEN n - 24 ELSE -149 - e)

\* the float nearest to m * 2^e (ties to even), negated when neg; the lowest bit of m may
\* stand for 1s further down when m has two bits more than the float keeps
RoundPack(neg, m, e) == IF m = 0 THEN 0 ELSE PackBits(neg, m, e, BitLen(m))

\* (float) n
FromInt(n) == RoundPack(n < 0, FAbs(n), 0)

\* the sum of two significands of signs na, nb, aligned at exponent e
AddAligned(na, ma, nb, mb, e) ==
    RoundPack(IF na = nb \/ ma >= mb THEN na ELSE nb,
              IF na = nb THEN ma + mb ELSE FAbs(ma - mb), e)

\* the sum of two unpacked floats: the significand of the smaller exponent is shifted
\* right, three guard bits kept
AddUnpacked(na, ua, nb, ub) ==
    AddAligned(na, ShiftRightJam(ua.m * 8, IF ub.e > ua.e THEN ub.e - ua.e ELSE 0),
               nb, ShiftRightJam(ub.m * 8, IF ua.e > ub.e THEN ua.e - ub.e ELSE 0),
               (IF ua.e > ub.e THEN ua.e ELSE ub.e) - 3)

\* a + b
FAdd(a, b) ==
    IF IsNaN(a) \/ IsNaN(b) \/ (FAbs(a) = Infinity /\ b = -a) THEN NaN
    ELSE IF FAbs(a) = Infinity \/ b = 0 THEN a
    ELSE IF FAbs(b) = Infinity \/ a = 0 THEN b
    ELSE AddUnpacked(a < 0, Unpack(a), b < 0, Unpack(b))

\* a - b
FSub(a, b) == FAdd(a, -b)

\* a * b of two significands below 2^24, as hi * 2^24 + lo
Mul24(a, b) ==
    LET mid == (a \div 4096) * (b % 4096) + (a % 4096) * (b \div 4096)
        low == (mid % 4096) * 4096 + (a % 4096) * (b % 4096)
    IN [hi |-> (a \div 4096) * (b \div 4096) + mid \div 4096 + low \div Pow2(24),
        lo |-> low % Pow2(24)]

\* the float nearest to p * 2^e for a product p of Mul24
PackProduct(neg, p, e) == RoundPack(neg, p.hi * 64 + ShiftRightJam(p.lo, 18), e + 18)

\* a * b
FMul(a, b) ==
    IF IsNaN(a) \/ IsNaN(b) THEN NaN
    ELSE IF FAbs(a) = Infinity \/ FAbs(b) = Infinity
    THEN (IF a = 0 \/ b = 0 THEN NaN ELSE IF (a < 0) = (b < 0) THEN Infinity ELSE -Infinity)
    ELSE IF a = 0 \/ b = 0 THEN 0
    ELSE PackProduct((a < 0) # (b < 0), Mul24(Unpack(a).m, Unpack(b).m),
                     Unpack(a).e + Unpack(b).e)

RECURSIVE LongDiv(_, _, _)
\* the quotient r * 2^bits / m for r < m < 2^24, and whether the division left a remainder
LongDiv(r, m, bits) ==
    IF bits = 0 THEN [q |-> 0, rest |-> r # 0]
    ELSE LET k == IF bits >= 7 THEN 7 ELSE bits
             d == LongDiv((r * Pow2(k)) % m, m, bits - k)
         IN [q |-> ((r * Pow2(k)) \div m) * Pow2(bits - k) + d.q, rest |-> d.rest]

\* the float nearest to (int + d.q * 2^-26) * 2^e for a quotient d of LongDiv
PackQuotient(neg, int, d, e) ==
    RoundPack(neg, int * Pow2(26) + d.q
                   + (IF d.rest /\ d.q % 2 = 0 THEN 1 ELSE 0), e - 26)

\* the quotient of two unpacked floats
DivUnpacked(neg, ua, ub) ==
    PackQuotient(neg, ua.m \div ub.m, LongDiv(ua.m % ub.m, ub.m, 26), ua.e - ub.e)

\* a / b.  The encoding has one zero: a divisor 0 is +0.0f.  No division of the solver has
\* a zero divisor: a float divisor is tested != 0 or > 0 first, the others are positive ints
FDiv(a, b) ==
    IF IsNaN(a) \/ IsNaN(b) \/ (a = 0 /\ b = 0) \/ (FAbs(a) = Infinity /\ FAbs(b) = Infinity)
    THEN NaN
    ELSE IF FAbs(a) = Infinity \/ b = 0
    THEN (IF (a < 0) = (b < 0) THEN Infinity ELSE -Infinity)
    ELSE IF a = 0 \/ FAbs(b) = Infinity THEN 0
    ELSE DivUnpacked((a < 0) # (b < 0), Unpack(a), Unpack(b))

\* a < b; a comparison with NaN is false
FLt(a, b) == ~IsNaN(a) /\ ~IsNaN(b) /\ a < b

\* std::max(a, b)
FMax(a, b) == IF FLt(a, b) THEN b ELSE a

\* the bit patterns of 1.0f and 0.5f
One == 1065353216
Half == 1056964608

(* double arithmetic: IEEE-754 binary64.  A natural number of up to 59 bits is held as
   [hi, lo], standing for hi * 2^30 + lo.  A double, which is never negative here, is held as
   [hi, lo, e]: its 53-bit significand, its value the significand * 2^e; 0.0 has hi = 0. *)

Wide(hi, lo) == [hi |-> hi, lo |-> lo]

\* 2 * w + bit
WShl(w, bit) ==
    Wide(2 * w.hi + (2 * w.lo + bit) \div Pow2(30), (2 * w.lo + bit) % Pow2(30))

\* w >> d for d < 30
WShr(w, d) == Wide(w.hi \div Pow2(d), (w.hi % Pow2(d)) * Pow2(30 - d) + w.lo \div Pow2(d))

WLe(a, b) == a.hi < b.hi \/ (a.hi = b.hi /\ a.lo <= b.lo)

WAdd(a, b) == Wide(a.hi + b.hi + (a.lo + b.lo) \div Pow2(30), (a.lo + b.lo) % Pow2(30))

\* a - b for a >= b
WSub(a, b) ==
    IF a.lo >= b.lo THEN Wide(a.hi - b.hi, a.lo - b.lo)
    ELSE Wide(a.hi - b.hi - 1, a.lo + Pow2(30) - b.lo)

\* the double r * 2^e, a carry of the rounding out of 53 bits moved into the exponent
DCarry(r, e) ==
    IF r.hi >= Pow2(23)
    THEN [hi |-> r.hi \div 2, lo |-> (r.hi % 2) * Pow2(29) + r.lo \div 2, e |-> e + 1]
    ELSE [hi |-> r.hi, lo |-> r.lo, e |-> e]

\* q, or q + 1 when the dropped bits rem are above half, or are half and q is odd
DRoundUp(q, rem, half, sticky) ==
    IF rem > half \/ (rem = half /\ (sticky \/ q.lo % 2 = 1)) THEN WAdd(q, Wide(0, 1))
    ELSE q

\* DRound for a w that has drop bits more than the 53 a double keeps
DRoundDrop(w, sticky, e, drop) ==
    DCarry(DRoundUp(WShr(w, drop), w.lo % Pow2(drop), Pow2(drop - 1), sticky), e + drop)

\* the double nearest to w * 2^e (ties to even) for a w of 54 to 59 bits; sticky tells that
\* 1s were lost below w
DRound(w, sticky, e) == DRoundDrop(w, sticky, e, BitLen(w.hi) - 23)

\* (double) n for 0 <= n < 2^31
DFromInt(n) ==
    LET k == 53 - BitLen(n)
    IN IF n = 0 THEN [hi |-> 0, lo |-> 0, e |-> 0]
       ELSE IF k >= 30 THEN [hi |-> n * Pow2(k - 30), lo |-> 0, e |-> -k]
       ELSE [hi |-> n \div Pow2(30 - k), lo |-> (n % Pow2(30 - k)) * Pow2(k), e |-> -k]

RECURSIVE SqrtBits(_, _, _, _)
\* the square root of n digit by digit: k pairs of bits of n are still to come, then pairs of
\* zeros; left bits of the root are still to be found
SqrtBits(n, k, st, left) ==
    IF left = 0 THEN st
    ELSE LET pair == IF k > 0 THEN (n \div Pow2(2 * k - 2)) % 4 ELSE 0
             rem == WShl(WShl(st.rem, pair \div 2), pair % 2)
             trial == WShl(WShl(st.root, 0), 1)
         IN IF WLe(trial, rem)
            THEN SqrtBits(n, k - 1, [rem |-> WSub(rem, trial), root |-> WShl(st.root, 1)],
                          left - 1)
            ELSE SqrtBits(n, k - 1, [rem |-> rem, root |-> WShl(st.root, 0)], left - 1)

\* sqrt(n) for an integer 0 <= n < 2^31, correctly rounded
DSqrt(n) ==
    LET k == (BitLen(n) + 1) \div 2
        st == SqrtBits(n, k, [rem |-> Wide(0, 0), root |-> Wide(0, 0)], 54)
    IN IF n = 0 THEN DFromInt(0) ELSE DRound(st.root, st.rem # Wide(0, 0), k - 54)

WJam(w, lost) == IF lost /\ w.lo % 2 = 0 THEN Wide(w.hi, w.lo + 1) ELSE w

\* w >> d, the lowest bit of the result set when a 1 was shifted out
WShrJam(w, d) == WJam(WShr(w, d), w.lo % Pow2(d) # 0)

\* big + small for big.e >= small.e: two guard bits are kept
DAddOrdered(big, small) ==
    DRound(WAdd(WShl(WShl(big, 0), 0), WShrJam(WShl(WShl(small, 0), 0), big.e - small.e)),
           FALSE, big.e - 2)

\* a + b for doubles whose exponents differ by less than 30
DAdd(a, b) ==
    IF a.hi = 0 THEN b
    ELSE IF b.hi = 0 THEN a
    ELSE IF a.e >= b.e THEN DAddOrdered(a, b)
    ELSE DAddOrdered(b, a)

RECURSIVE DivBits(_, _, _)
\* long division by d: left more bits of the quotient st.q, st.rem being the remainder
DivBits(d, st, left) ==
    IF left = 0 THEN st
    ELSE IF WLe(d, WShl(st.rem, 0))
         THEN DivBits(d, [rem |-> WSub(WShl(st.rem, 0), d), q |-> WShl(st.q, 1)], left - 1)
         ELSE DivBits(d, [rem |-> WShl(st.rem, 0), q |-> WShl(st.q, 0)], left - 1)

\* a / b for b > 0
DDiv(a, b) ==
    LET st == DivBits(Wide(b.hi, b.lo),
                      IF WLe(b, a) THEN [rem |-> WSub(a, b), q |-> Wide(0, 1)]
                      ELSE [rem |-> Wide(a.hi, a.lo), q |-> Wide(0, 0)], 55)
    IN IF a.hi = 0 THEN a ELSE DRound(st.q, st.rem # Wide(0, 0), a.e - b.e - 55)

\* (float) d
DToF(d) ==
    LET m == d.hi * 128 + d.lo \div Pow2(23)
    IN RoundPack(FALSE, IF d.lo % Pow2(23) # 0 /\ m % 2 = 0 THEN m + 1 ELSE m, d.e + 23)

\* the rounding of the double (T * 2^29 + X) * 2^e to a float
RoundFloat(neg, T, X, e) ==
    RoundPack(neg, (T + X \div Pow2(29)) * 64 + ShiftRightJam(X % Pow2(29), 23), e)


\* the rounding to a double
RoundDouble(neg, T, X, Y, half, e) ==
    RoundFloat(neg, T, IF Y > half \/ (Y = half /\ X % 2 = 1) THEN X + 1 ELSE X, e)

\* the product of 76 or 77 bits is cut to the 53 bits of a double: T holds the upper 24 of
\* them, X the lower 29, Y the bits below
RoundLimbs(neg, l0, l1, l2, l3, e) ==
    IF l3 >= 16
    THEN RoundDouble(neg, l3 * Pow2(19) + l2 \div 32, (l2 % 32) * Pow2(24) + l1, l0,
                     Pow2(23), e + 47)
    ELSE RoundDouble(neg, l3 * Pow2(20) + l2 \div 16,
                     (l2 % 16) * Pow2(25) + l1 * 2 + l0 \div Pow2(23), l0 % Pow2(23),
                     Pow2(22), e + 46)

MulCarry(neg, l0, s1, s2, s3, e) ==
    RoundLimbs(neg, l0, s1 % Pow2(24), (s2 + s1 \div Pow2(24)) % Pow2(24),
               s3 + (s2 + s1 \div Pow2(24)) \div Pow2(24), e)

\* the 77-bit product p0 + p1 * 2^24 + p2 * 2^48 in limbs of 24 bits, lowest first
MulLimbs(neg, p0, p1, p2, e) ==
    MulCarry(neg, p0.lo, p0.hi + p1.lo, p1.hi + (p2 % Pow2(24)), p2 \div Pow2(24), e)

\* (float) ((double) a * d): the product is rounded to a double and then to a float
FMulD(a, d) ==
    IF IsNaN(a) THEN a
    ELSE IF FAbs(a) = Infinity THEN (IF d.hi = 0 THEN NaN ELSE a)
    ELSE IF a = 0 \/ d.hi = 0 THEN 0
    ELSE MulLimbs(a < 0, Mul24(Unpack(a).m, d.lo % Pow2(24)),
                  Mul24(Unpack(a).m, d.lo \div Pow2(24) + (d.hi % Pow2(18)) * 64),
                  Unpack(a).m * (d.hi \div Pow2(18)), Unpack(a).e + d.e)

\* a vector<float> held by value: all entries are computed when it is built
Vec(v) == v @@ <<>>

Size(v) == Cardinality(DOMAIN v)
Zeros(n) == Vec([k \in 0..(n - 1) |-> 0])
EmptyVec == Zeros(0)

RECURSIVE SumTo(_, _)
\* ((0 + v[0]) + ...) + v[n-1], a float accumulator starting at 0
SumTo(v, n) == IF n = 0 THEN 0 ELSE FAdd(SumTo(v, n - 1), v[n - 1])

\* pow(t, alpha) for alpha = 1.5, a double: the square root of t * t * t
PowAlpha(t) == DSqrt(t * t * t)

\* alpha_coef of updateRegrets by iteration_number, a double
AlphaCoefs ==
    [t \in 0..(MaxIterations + 1) |-> DDiv(PowAlpha(t), DAdd(DFromInt(1), PowAlpha(t)))]


-----------------------------------------------------------------------------
(* Cards, hands, deck *)

card_num == 4 * NumRanks
Deck == 0..(card_num - 1)
SuitOf(c) == c % 4
RankOf(c) == c \div 4

Hand(c1, c2) == [card1 |-> c1, card2 |-> c2]
HandCards(h) == {h.card1, h.card2}
\* Card::boardsHasIntercept on bit masks, masks being sets of cards
boardsHasIntercept(a, b) == a \cap b # {}

\* The range strings given to the solver, as (hand, weight) lists.
InputRange1 ==
    [k \in 0..3 |->
        CASE k = 0 -> [hand |-> Hand(4, 5), weight |-> One]
          [] k = 1 -> [hand |-> Hand(2, 3), weight |-> One]
          [] k = 2 -> [hand |-> Hand(3, 7), weight |-> Half]
          [] k = 3 -> [hand |-> Hand(8, 9), weight |-> One]]

InputRange2 ==
    [k \in 0..3 |->
        CASE k = 0 -> [hand |-> Hand(3, 7), weight |-> One]
          [] k = 1 -> [hand |-> Hand(0, 4), weight |-> One]
          [] k = 2 -> [hand |-> Hand(9, 11), weight |-> Half]
          [] k = 3 -> [hand |-> Hand(5, 10), weight |-> One]]

\* the initial boards tried: three suits alike, and two suits alike
Boards == {{0, 1, 2}, {0, 1, 6}}

RECURSIVE FilterRangeReversed(_, _, _)
\* FilterRange that puts each kept entry at the front of the result
FilterRangeReversed(private_range, board_long, k) ==
    IF k >= Size(private_range) THEN <<>>
    ELSE LET rest == FilterRangeReversed(private_range, board_long, k + 1)
         IN IF boardsHasIntercept(HandCards(private_range[k].hand), board_long)
            THEN rest
            ELSE rest \o <<private_range[k]>>

RECURSIVE FilterRange(_, _, _)
\* the entries k..Size-1 of private_range that miss the board, in order
FilterRange(private_range, board_long, k) ==
    IF k >= Size(private_range) THEN <<>>
    ELSE LET rest == FilterRange(private_range, board_long, k + 1)
         IN IF boardsHasIntercept(HandCards(private_range[k].hand), board_long)
            THEN rest
            ELSE <<private_range[k]>> \o rest

noDuplicateRange(private_range, board_long) ==
    LET s == FilterRange(private_range, board_long, 0)
    IN [k \in 0..(Len(s) - 1) |-> s[k + 1]]

\* the constructor: ranges[0] and ranges[1] are the inputs filtered by the initial board
InitialRanges(initial_board) ==
    [p \in 0..1 |->
        noDuplicateRange(IF p = 0 THEN InputRange1 ELSE InputRange2, initial_board)]

playerHands(player) == Vec([k \in DOMAIN ranges[player] |-> ranges[player][k].hand])

getReachProbs ==
    [player \in 0..1 |-> [i \in DOMAIN ranges[player] |-> ranges[player][i].weight]]

\* PrivateCardsManager::indPlayer2Player: index of the same hand in the other range, or -1
indPlayer2Player(from, to, hand_id) ==
    LET same == {k \in DOMAIN ranges[to] : ranges[to][k].hand = ranges[from][hand_id].hand}
    IN IF same = {} THEN -1 ELSE CHOOSE k \in same : TRUE

SwapSuit(c, r1, r2) ==
    IF SuitOf(c) = r1 THEN c - r1 + r2
    ELSE IF SuitOf(c) = r2 THEN c - r2 + r1
    ELSE c

\* index of the hand obtained from hand i by swapping suits r1 and r2; i when absent
ColorPartner(range, i, r1, r2) ==
    LET sw == {SwapSuit(range[i].hand.card1, r1, r2), SwapSuit(range[i].hand.card2, r1, r2)}
        same == {k \in DOMAIN range : HandCards(range[k].hand) = sw}
    IN IF same = {} THEN i ELSE CHOOSE k \in same : TRUE

exchange_color(value, range, rank1, rank2) ==
    IF Size(value) = 0 THEN value
    ELSE Vec([i \in DOMAIN value |-> value[ColorPartner(range, i, rank1, rank2)]])

-----------------------------------------------------------------------------
(* The game tree *)

ACTION_NODE == "ACTION"
CHANCE_NODE == "CHANCE"
TERMINAL_NODE == "TERMINAL"
SHOWDOWN_NODE == "SHOWDOWN"

\* round is the number of rounds after the root round
Tree ==
    [n \in 1..9 |->
        CASE n = 1 -> [type |-> ACTION_NODE, player |-> 0, round |-> 0, childrens |-> <<2, 3>>]
          [] n = 2 -> [type |-> TERMINAL_NODE, payoffs |-> <<FromInt(-1), FromInt(1)>>]
          [] n = 3 -> [type |-> CHANCE_NODE, round |-> 1, children |-> 4]
          [] n = 4 -> [type |-> ACTION_NODE, player |-> 1, round |-> 1, childrens |-> <<5, 6>>]
          [] n = 5 -> [type |-> SHOWDOWN_NODE, win |-> FromInt(2), lose |-> FromInt(-2)]
          [] n = 6 -> [type |-> CHANCE_NODE, round |-> 2, children |-> 7]
          [] n = 7 -> [type |-> ACTION_NODE, player |-> 0, round |-> 2, childrens |-> <<8, 9>>]
          [] n = 8 -> [type |-> SHOWDOWN_NODE, win |-> FromInt(3), lose |-> FromInt(-3)]
          [] n = 9 -> [type |-> TERMINAL_NODE, payoffs |-> <<FromInt(2), FromInt(-2)>>]]

Root == 1
ActionNodes == {n \in DOMAIN Tree : Tree[n].type = ACTION_NODE}
NumActions(n) == Len(Tree[n].childrens)
\* children[action_id], action_id counted from 0
Child(n, action_id) == Tree[n].childrens[action_id + 1]

\* number of trainable slots of an action node (setTrainable)
TrainableNum(n) ==
    LET gap == Tree[n].round
    IN IF gap = 2 THEN card_num * card_num + card_num + 1
       ELSE IF gap = 1 THEN card_num + 1
       ELSE 1

\* Compairer: rank of a hand on a board; lower is stronger
HandRank(h, board) ==
    LET paired == {c \in board : RankOf(c) \in {RankOf(h.card1), RankOf(h.card2)}}
    IN 4 * NumRanks - (RankOf(h.card1) + RankOf(h.card2)) - 2 * Cardinality(paired)

-----------------------------------------------------------------------------
(* Isomorphism table *)

\* color_hash[suit]: the ranks of the board cards of that suit
ColorHash(board, suit) == {RankOf(c) : c \in {b \in board : SuitOf(b) = suit}}

\* IsoRow without the comparison of the suits: every offset stays 0
IsoRowAllCanonical(board) == [i \in 0..3 |-> 0]

\* one row of color_iso_offset: the inner loop keeps the last matching j
IsoRow(board) ==
    [i \in 0..3 |->
        LET same == {j \in 0..(i - 1) : ColorHash(board, j) = ColorHash(board, i)}
        IN IF same = {} THEN 0
           ELSE (CHOOSE j \in same : \A k \in same : k <= j) - i]

NoIsomorphisms == [deal \in 0..(card_num * card_num + card_num) |-> [s \in 0..3 |-> 0]]

findGameSpecificIsomorphisms(board) ==
    [deal \in 0..(card_num * card_num + card_num) |->
        IF deal = 0 THEN IsoRow(board)
        ELSE IF deal <= card_num THEN IsoRow(board \cup {deal - 1})
        ELSE [s \in 0..3 |-> 0]]

-----------------------------------------------------------------------------
(* DiscountedCfrTrainable *)

\* (float) (1.0 / action_number) by action_number, for the action nodes of the tree
Reciprocals ==
    [action_number \in {NumActions(n) : n \in ActionNodes} |->
        DToF(DDiv(DFromInt(1), DFromInt(action_number)))]

beta == 0
gamma == 2
theta == One

NewTrainable(action_number, card_number) ==
    [evs |-> Zeros(action_number * card_number),
     equities |-> Zeros(action_number * card_number),
     r_plus |-> Zeros(action_number * card_number),
     r_plus_sum |-> Zeros(card_number),
     cum_r_plus |-> Zeros(action_number * card_number)]

\* getcurrentStrategyNoCache without the division by r_plus_sum
getcurrentStrategyUnnormalised(t, action_number, card_number) ==
    Vec([index \in 0..(action_number * card_number - 1) |->
        LET private_id == index % card_number
        IN IF t.r_plus_sum[private_id] # 0
           THEN FMax(0, t.r_plus[index])
           ELSE Reciprocals[action_number]])

getcurrentStrategyNoCache(t, action_number, card_number) ==
    Vec([index \in 0..(action_number * card_number - 1) |->
        LET private_id == index % card_number
        IN IF t.r_plus_sum[private_id] # 0
           THEN FDiv(FMax(0, t.r_plus[index]), t.r_plus_sum[private_id])
           ELSE Reciprocals[action_number]])

getcurrentStrategy(t, action_number, card_number) ==
    getcurrentStrategyNoCache(t, action_number, card_number)

\* getAverageStrategy with the sum of the first action's column only as denominator
getAverageStrategyFirstColumn(t, action_number, card_number) ==
    Vec([index \in 0..(action_number * card_number - 1) |->
        LET private_id == index % card_number
            sum == t.cum_r_plus[private_id]
        IN IF sum # 0 THEN FDiv(t.cum_r_plus[index], sum)
           ELSE Reciprocals[action_number]])

getAverageStrategy(t, action_number, card_number) ==
    Vec([index \in 0..(action_number * card_number - 1) |->
        LET private_id == index % card_number
            sum == SumTo([a \in 0..(action_number - 1) |->
                            t.cum_r_plus[a * card_number + private_id]], action_number)
        IN IF sum # 0 THEN FDiv(t.cum_r_plus[index], sum)
           ELSE Reciprocals[action_number]])

copyStrategy(t, other) ==
    [t EXCEPT !.r_plus = other.r_plus, !.cum_r_plus = other.cum_r_plus]

\* what setEv and setEquity leave instead of a trainable when they throw
SizeMismatch == [threw |-> "runtime_error"]

\* a vector of another size than the trainable's throws; an entry is stored unless it is NaN
setEv(t, evs) ==
    IF Size(evs) # Size(t.evs) THEN SizeMismatch
    ELSE [t EXCEPT !.evs = Vec([i \in DOMAIN evs |->
                                  IF IsNaN(evs[i]) THEN t.evs[i] ELSE evs[i]])]

setEquity(t, equities) ==
    IF Size(equities) # Size(t.equities) THEN SizeMismatch
    ELSE [t EXCEPT !.equities = Vec([i \in DOMAIN equities |->
                                       IF IsNaN(equities[i]) THEN t.equities[i]
                                       ELSE equities[i]])]

\* updateRegrets without the reset of r_plus_sum: the sums of the earlier calls stay in
updateRegretsNoReset(t, regrets, iteration_number, action_number, card_number) ==
    LET alpha_coef == AlphaCoefs[iteration_number]
        r_plus == Vec([index \in DOMAIN t.r_plus |->
                     LET r == FAdd(regrets[index], t.r_plus[index])
                     IN IF FLt(0, r) THEN FMulD(r, alpha_coef) ELSE FMul(r, beta)])
        r_plus_sum == Vec([private_id \in 0..(card_number - 1) |->
                         FAdd(t.r_plus_sum[private_id],
                              SumTo([a \in 0..(action_number - 1) |->
                                       FMax(0, r_plus[a * card_number + private_id])],
                                    action_number))])
        t1 == [t EXCEPT !.r_plus = r_plus, !.r_plus_sum = r_plus_sum]
        current_strategy == getcurrentStrategyNoCache(t1, action_number, card_number)
        q == FDiv(FromInt(iteration_number), FromInt(iteration_number + 1))
        strategy_coef == IF gamma = 2 THEN FMul(q, q) ELSE q
    IN [t1 EXCEPT !.cum_r_plus =
            Vec([index \in DOMAIN t.cum_r_plus |->
                FAdd(FMul(t.cum_r_plus[index], theta),
                     FMul(current_strategy[index], strategy_coef))])]

updateRegrets(t, regrets, iteration_number, action_number, card_number) ==
    LET alpha_coef == AlphaCoefs[iteration_number]
        r_plus == Vec([index \in DOMAIN t.r_plus |->
                     LET r == FAdd(regrets[index], t.r_plus[index])
                     IN IF FLt(0, r) THEN FMulD(r, alpha_coef) ELSE FMul(r, beta)])
        r_plus_sum == Vec([private_id \in 0..(card_number - 1) |->
                         SumTo([a \in 0..(action_number - 1) |->
                                  FMax(0, r_plus[a * card_number + private_id])],
                               action_number)])
        t1 == [t EXCEPT !.r_plus = r_plus, !.r_plus_sum = r_plus_sum]
        current_strategy == getcurrentStrategyNoCache(t1, action_number, card_number)
        q == FDiv(FromInt(iteration_number), FromInt(iteration_number + 1))
        strategy_coef == IF gamma = 2 THEN FMul(q, q) ELSE q
    IN [t1 EXCEPT !.cum_r_plus =
            Vec([index \in DOMAIN t.cum_r_plus |->
                FAdd(FMul(t.cum_r_plus[index], theta),
                     FMul(current_strategy[index], strategy_coef))])]

-----------------------------------------------------------------------------
(* Leaves: terminalUtility and showdownUtility *)

CardSums(hands, reach) ==
    Vec([c \in Deck |->
        SumTo([i \in DOMAIN hands |-> IF c \in HandCards(hands[i]) THEN reach[i] ELSE 0],
              Size(hands))])

\* CfrResult with an equity as long as the payoffs in every case, as CfrResult(size) builds it
CfrResultOfSize(payoffs, equity) ==
    [payoffs |-> payoffs,
     equity |-> IF Size(equity) = 0 THEN Zeros(Size(payoffs)) ELSE equity]

CfrResult(payoffs, equity) == [payoffs |-> payoffs, equity |-> equity]

\* terminalUtility without the test of the hand against the board
terminalUtilityAllHands(player, node, reach_prob, current_board) ==
    LET player_payoff == Tree[node].payoffs[player + 1]
        oppo == 1 - player
        player_hand == playerHands(player)
        oppo_hand == playerHands(oppo)
        oppo_sum == SumTo(reach_prob, Size(oppo_hand))
        oppo_card_sum == CardSums(oppo_hand, reach_prob)
        effective_oppo_reach(i) ==
            LET oppo_same_card_ind == indPlayer2Player(player, oppo, i)
                plus_reach_prob == IF oppo_same_card_ind = -1 THEN 0
                                   ELSE reach_prob[oppo_same_card_ind]
            IN FAdd(FSub(FSub(oppo_sum, oppo_card_sum[player_hand[i].card1]),
                         oppo_card_sum[player_hand[i].card2]), plus_reach_prob)
    IN CfrResult(
         Vec([i \in DOMAIN player_hand |-> FMul(player_payoff, effective_oppo_reach(i))]),
         IF cfg.enable_equity
         THEN Vec([i \in DOMAIN player_hand |->
                 IF FLt(0, player_payoff) THEN effective_oppo_reach(i) ELSE 0])
         ELSE EmptyVec)

\* terminalUtility without plus_reach_prob: an opponent hand equal to the player's is taken
\* off once for each of its two cards
terminalUtilityNoPlus(player, node, reach_prob, current_board) ==
    LET player_payoff == Tree[node].payoffs[player + 1]
        oppo == 1 - player
        player_hand == playerHands(player)
        oppo_hand == playerHands(oppo)
        oppo_sum == SumTo(reach_prob, Size(oppo_hand))
        oppo_card_sum == CardSums(oppo_hand, reach_prob)
        effective_oppo_reach(i) ==
            FSub(FSub(oppo_sum, oppo_card_sum[player_hand[i].card1]),
                 oppo_card_sum[player_hand[i].card2])
        overlaps(i) == boardsHasIntercept(current_board, HandCards(player_hand[i]))
    IN CfrResult(
         Vec([i \in DOMAIN player_hand |->
            IF overlaps(i) THEN 0 ELSE FMul(player_payoff, effective_oppo_reach(i))]),
         IF cfg.enable_equity
         THEN Vec([i \in DOMAIN player_hand |->
                 IF ~overlaps(i) /\ FLt(0, player_payoff) THEN effective_oppo_reach(i) ELSE 0])
         ELSE EmptyVec)

terminalUtility(player, node, reach_prob, current_board) ==
    LET player_payoff == Tree[node].payoffs[player + 1]
        oppo == 1 - player
        player_hand == playerHands(player)
        oppo_hand == playerHands(oppo)
        oppo_sum == SumTo(reach_prob, Size(oppo_hand))
        oppo_card_sum == CardSums(oppo_hand, reach_prob)
        effective_oppo_reach(i) ==
            LET oppo_same_card_ind == indPlayer2Player(player, oppo, i)
                plus_reach_prob == IF oppo_same_card_ind = -1 THEN 0
                                   ELSE reach_prob[oppo_same_card_ind]
            IN FAdd(FSub(FSub(oppo_sum, oppo_card_sum[player_hand[i].card1]),
                         oppo_card_sum[player_hand[i].card2]), plus_reach_prob)
        overlaps(i) == boardsHasIntercept(current_board, HandCards(player_hand[i]))
    IN CfrResult(
         Vec([i \in DOMAIN player_hand |->
            IF overlaps(i) THEN 0 ELSE FMul(player_payoff, effective_oppo_reach(i))]),
         IF cfg.enable_equity
         THEN Vec([i \in DOMAIN player_hand |->
                 IF ~overlaps(i) /\ FLt(0, player_payoff) THEN effective_oppo_reach(i) ELSE 0])
         ELSE EmptyVec)

RECURSIVE InsertComb(_, _)
\* insert into a list sorted by rank ascending, after the entries of equal rank
InsertComb(sorted, comb) ==
    IF sorted = <<>> THEN <<comb>>
    ELSE IF comb.rank < Head(sorted).rank THEN <<comb>> \o sorted
    ELSE <<Head(sorted)>> \o InsertComb(Tail(sorted), comb)

RECURSIVE SortCombs(_, _, _)
SortCombs(hands, board, k) ==
    IF k = 0 THEN <<>>
    ELSE LET before == SortCombs(hands, board, k - 1)
         IN IF boardsHasIntercept(HandCards(hands[k - 1]), board) THEN before
            ELSE InsertComb(before, [private_cards |-> hands[k - 1],
                                     rank |-> HandRank(hands[k - 1], board),
                                     reach_prob_index |-> k - 1])

\* RiverRangeManager::getRiverCombos: the hands off the board, by rank ascending
getRiverCombos(player, board) ==
    LET s == SortCombs(playerHands(player), board, Size(playerHands(player)))
    IN [k \in 0..(Len(s) - 1) |-> s[k + 1]]

AddComb(acc, comb, reach_probs, j) ==
    LET r == reach_probs[comb.reach_prob_index]
    IN [j |-> j,
        sum |-> FAdd(acc.sum, r),
        card |-> Vec([c \in Deck |->
                        IF c \in HandCards(comb.private_cards) THEN FAdd(acc.card[c], r)
                        ELSE acc.card[c]])]

RECURSIVE WinWhile(_, _, _, _)
\* while (j < oppo_combs.size() && rank < oppo_combs[j].rank)
WinWhile(rank, acc, oppo_combs, reach_probs) ==
    IF acc.j < Size(oppo_combs) /\ rank < oppo_combs[acc.j].rank
    THEN WinWhile(rank, AddComb(acc, oppo_combs[acc.j], reach_probs, acc.j + 1),
                  oppo_combs, reach_probs)
    ELSE acc

RECURSIVE LossWhile(_, _, _, _)
\* while (j >= 0 && rank > oppo_combs[j].rank)
LossWhile(rank, acc, oppo_combs, reach_probs) ==
    IF acc.j >= 0 /\ rank > oppo_combs[acc.j].rank
    THEN LossWhile(rank, AddComb(acc, oppo_combs[acc.j], reach_probs, acc.j - 1),
                   oppo_combs, reach_probs)
    ELSE acc

RECURSIVE WinPass(_, _, _, _)
\* the first loop of showdownUtility after player_combs[0..i-1]: pointer state and effective_winsum per hand
WinPass(i, player_combs, oppo_combs, reach_probs) ==
    IF i = 0
    THEN [acc |-> [j |-> 0, sum |-> 0, card |-> [c \in Deck |-> 0]],
          eff |-> [h \in {} |-> 0]]
    ELSE LET before == WinPass(i - 1, player_combs, oppo_combs, reach_probs)
             comb == player_combs[i - 1]
             acc == WinWhile(comb.rank, before.acc, oppo_combs, reach_probs)
             effective_winsum == FSub(FSub(acc.sum, acc.card[comb.private_cards.card1]),
                                      acc.card[comb.private_cards.card2])
         IN [acc |-> acc,
             eff |-> (comb.reach_prob_index :> effective_winsum) @@ before.eff]

RECURSIVE LossPass(_, _, _, _)
\* the second loop after player_combs[i..size-1], walking downwards
LossPass(i, player_combs, oppo_combs, reach_probs) ==
    IF i = Size(player_combs)
    THEN [acc |-> [j |-> Size(oppo_combs) - 1, sum |-> 0, card |-> [c \in Deck |-> 0]],
          eff |-> [h \in {} |-> 0]]
    ELSE LET before == LossPass(i + 1, player_combs, oppo_combs, reach_probs)
             comb == player_combs[i]
             acc == LossWhile(comb.rank, before.acc, oppo_combs, reach_probs)
             effective_losssum == FSub(FSub(acc.sum, acc.card[comb.private_cards.card1]),
                                       acc.card[comb.private_cards.card2])
         IN [acc |-> acc,
             eff |-> (comb.reach_prob_index :> effective_losssum) @@ before.eff]

RECURSIVE OppoTotals(_, _, _)
\* oppo_total and oppo_card_total of showdownUtility after oppo_combs[0..k-1]
OppoTotals(k, oppo_combs, reach_probs) ==
    IF k = 0 THEN [j |-> 0, sum |-> 0, card |-> [c \in Deck |-> 0]]
    ELSE AddComb(OppoTotals(k - 1, oppo_combs, reach_probs), oppo_combs[k - 1], reach_probs, k)

showdownUtility(player, node, reach_probs, current_board) ==
    LET oppo == 1 - player
        win_payoff == Tree[node].win
        lose_payoff == Tree[node].lose
        player_combs == getRiverCombos(player, current_board)
        oppo_combs == getRiverCombos(oppo, current_board)
        win == WinPass(Size(player_combs), player_combs, oppo_combs, reach_probs).eff
        loss == LossPass(0, player_combs, oppo_combs, reach_probs).eff
        totals == OppoTotals(Size(oppo_combs), oppo_combs, reach_probs)
        effective_total(h) ==
            LET same == indPlayer2Player(player, oppo, h)
                hand == playerHands(player)[h]
                total == FSub(FSub(totals.sum, totals.card[hand.card1]),
                              totals.card[hand.card2])
            IN IF same # -1 THEN FAdd(total, reach_probs[same]) ELSE total
        effective_tiesum(h) ==
            LET tiesum == FSub(FSub(effective_total(h), win[h]), loss[h])
            IN IF FLt(tiesum, 0) THEN 0 ELSE tiesum
    IN CfrResult(
         Vec([h \in DOMAIN ranges[player] |->
            IF h \in DOMAIN win
            THEN FAdd(FMul(win[h], win_payoff), FMul(loss[h], lose_payoff))
            ELSE 0]),
         IF cfg.enable_equity
         THEN Vec([h \in DOMAIN ranges[player] |->
                 IF h \in DOMAIN win
                 THEN FAdd(win[h], FMul(Half, effective_tiesum(h)))
                 ELSE 0])
         ELSE EmptyVec)

-----------------------------------------------------------------------------
(* The traversal: the parts of cfr, actionUtility and chanceUtility *)

\* getAllAbstractionDeal without the abstraction: the deal alone
getAllAbstractionDealSelf(deal) == <<deal>>

\* the deals that share their ranks with deal and avoid the initial board, in loop order
getAllAbstractionDeal(deal) ==
    IF deal = 0 THEN <<deal>>
    ELSE IF deal > 0 /\ deal <= card_num
    THEN LET origin_deal == ((deal - 1) \div 4) * 4
             cand == [k \in 1..4 |-> origin_deal + (k - 1)]
             free(c) == ~boardsHasIntercept({c}, cfg.initial_board)
             kept == SelectSeq(cand, free)
         IN [k \in 1..Len(kept) |-> kept[k] + 1]
    ELSE LET c_deal == deal - (1 + card_num)
             first_deal == ((c_deal \div card_num) \div 4) * 4
             second_deal == ((c_deal % card_num) \div 4) * 4
             cand == [k \in 1..16 |-> <<first_deal + ((k - 1) \div 4), second_deal + ((k - 1) % 4)>>]
             ok(pr) == /\ pr[1] # pr[2]
                       /\ ~boardsHasIntercept({pr[1]}, cfg.initial_board)
                       /\ ~boardsHasIntercept({pr[2]}, cfg.initial_board)
             kept == SelectSeq(cand, ok)
         IN [k \in 1..Len(kept) |-> card_num * kept[k][1] + kept[k][2] + 1 + card_num]

\* std::rand() of the C library of the build (glibc random_r, TYPE_3).  The hidden state is
\* the last 31 words of the sequence r[i] = r[i-31] + r[i-3] (mod 2^32), oldest first; a
\* 32-bit word is held as <<its high 16 bits, its low 16 bits>>.  One call appends a word.
RandNext(seed) ==
    LET a == seed[1]
        b == seed[29]
        lo == a[2] + b[2]
        hi == a[1] + b[1] + lo \div 65536
    IN Tail(seed) \o <<<<hi % 65536, lo % 65536>>>>

\* the value the call that left the generator in this state returned: the new word >> 1
RandValue(seed) == seed[31][1] * 32768 + seed[31][2] \div 2

RECURSIVE RandAfter(_, _)
\* the generator state after k calls: the first half of the calls, then the others
RandAfter(seed, k) ==
    IF k = 0 THEN seed
    ELSE IF k = 1 THEN RandNext(seed)
    ELSE LET half == RandAfter(seed, k \div 2)
         IN IF Len(half) = 0 THEN half ELSE RandAfter(half, k - k \div 2)

\* one access to a trainable, as recorded in the trace
Event(op, node, deal, player, it, visit, arg) ==
    [op |-> op, node |-> node, deal |-> deal, player |-> player, iter |-> it,
     visit |-> visit, arg |-> arg]

\* multiplier[card] of chanceUtility while iter <= warmup; cardr is the rand() draw per rank group
Multiplier(card, current_board, cardr) ==
    LET card_base == card \div 4
        card_target == card_base * 4 + cardr[card_base]
        multiplier_num == Cardinality({i \in 0..3 : (card_base * 4 + i) \notin current_board})
    IN IF card = card_target THEN multiplier_num ELSE 0

\* valid_cards of chanceUtility: the cards that get a child traversal, in card order
ValidCards(it, current_board, deal, cardr) ==
    LET all == [k \in 1..card_num |-> k - 1]
        valid(card) ==
            /\ ~boardsHasIntercept({card}, current_board)
            /\ ~(it <= cfg.warmup /\ Multiplier(card, current_board, cardr) = 0)
            /\ ~(color_iso_offset[deal][SuitOf(card)] < 0)
    IN SelectSeq(all, valid)

PossibleDeals(current_board) == card_num - Cardinality(current_board) - 2

\* NewReachProbs without the test of the dealt card against the hand
NewReachProbsAllHands(player, reach_probs, card, current_board) ==
    Vec([player_hand \in DOMAIN ranges[1 - player] |->
          FDiv(reach_probs[player_hand], FromInt(PossibleDeals(current_board)))])

\* NewReachProbs that compares the dealt card with the first card of the hand only
NewReachProbsFirstCard(player, reach_probs, card, current_board) ==
    LET oppo == 1 - player
    IN Vec([player_hand \in DOMAIN ranges[oppo] |->
          IF card = ranges[oppo][player_hand].hand.card1 THEN 0
          ELSE FDiv(reach_probs[player_hand], FromInt(PossibleDeals(current_board)))])

NewReachProbs(player, reach_probs, card, current_board) ==
    LET oppo == 1 - player
    IN Vec([player_hand \in DOMAIN ranges[oppo] |->
          IF boardsHasIntercept({card}, HandCards(ranges[oppo][player_hand].hand)) THEN 0
          ELSE FDiv(reach_probs[player_hand], FromInt(PossibleDeals(current_board)))])

\* NewDeal with the deal id taken from the rank group of the card instead of the card
NewDealOfRankGroup(deal, card) ==
    IF deal = 0 THEN (card \div 4) * 4 + 1
    ELSE IF deal > 0 /\ deal <= card_num
    THEN card_num * (deal - 1) + (card \div 4) * 4 + (1 + card_num)
    ELSE -1

\* NewDeal without the base of the two-card ids
NewDealNoBase(deal, card) ==
    IF deal = 0 THEN card + 1
    ELSE IF deal > 0 /\ deal <= card_num THEN card_num * (deal - 1) + card
    ELSE -1

\* new_deal of the parallel loop of chanceUtility: the abstract deal id of the child
NewDeal(deal, card) ==
    IF deal = 0 THEN card + 1
    ELSE IF deal > 0 /\ deal <= card_num THEN card_num * (deal - 1) + card + (1 + card_num)
    ELSE -1

\* the slot of the results array a child result is stored in
ResultSlot(card) == card

NoResult == CfrResult(EmptyVec, EmptyVec)

\* the second loop of chanceUtility: the serial accumulation over all cards
ChanceChild(player, results, card, deal) ==
    LET offset == color_iso_offset[deal][SuitOf(card)]
        rank1 == SuitOf(card)
        rank2 == rank1 + offset
    IN IF offset < 0
       THEN LET r == results[ResultSlot(card) + offset]
            IN CfrResult(exchange_color(r.payoffs, ranges[player], rank1, rank2),
                         IF cfg.enable_equity
                         THEN exchange_color(r.equity, ranges[player], rank1, rank2)
                         ELSE r.equity)
       ELSE results[ResultSlot(card)]

ChanceTotals(player, results, it, current_board, deal, cardr) ==
    LET child == Vec([card \in Deck |-> ChanceChild(player, results, card, deal)])
        term(card, value) ==
            IF it > cfg.warmup THEN value
            ELSE FMul(value, FromInt(Multiplier(card, current_board, cardr)))
        total(field, i) ==
            SumTo([card \in Deck |->
                     IF Size(child[card].payoffs) = 0 \/ Size(child[card][field]) = 0 THEN 0
                     ELSE term(card, child[card][field][i])], card_num)
    IN CfrResult(Vec([i \in DOMAIN ranges[player] |-> total("payoffs", i)]),
                 IF cfg.enable_equity
                 THEN Vec([i \in DOMAIN ranges[player] |-> total("equity", i)])
                 ELSE EmptyVec)

\* rp_sum of the EV recording in actionUtility
RpSum(player, reach_probs, hand_id) ==
    LET oppo == 1 - player
        oppo_hand == playerHands(oppo)
        oppo_sum == SumTo(reach_probs, Size(oppo_hand))
        oppo_card_sum == CardSums(oppo_hand, reach_probs)
        one_player_hand == playerHands(player)[hand_id]
        oppo_same_card_ind == indPlayer2Player(player, oppo, hand_id)
        plus_reach_prob == IF oppo_same_card_ind = -1 THEN 0 ELSE reach_probs[oppo_same_card_ind]
    IN FAdd(FSub(FSub(oppo_sum, oppo_card_sum[one_player_hand.card1]),
                 oppo_card_sum[one_player_hand.card2]), plus_reach_prob)

Normalized(values, player, reach_probs, action_number, card_number) ==
    LET rp_sum == Vec([hand_id \in 0..(card_number - 1) |-> RpSum(player, reach_probs, hand_id)])
    IN Vec([idx \in 0..(action_number * card_number - 1) |->
        LET hand_id == idx % card_number
            action_id == idx \div card_number
        IN IF Size(values[action_id]) = 0 THEN 0
           ELSE IF FLt(0, rp_sum[hand_id]) THEN FDiv(values[action_id][hand_id], rp_sum[hand_id])
           ELSE 0])

\* regrets[action_id * card_number + i] = all_action_utility[action_id][i] - payoffs[i]
Regrets(all_action_utility, payoffs, action_number, card_number) ==
    Vec([idx \in 0..(action_number * card_number - 1) |->
        FSub(all_action_utility[idx \div card_number][idx % card_number],
             payoffs[idx % card_number])])

\* UpdateIteration without the + 1
UpdateIterationSame(it) == it

\* the iteration number handed to updateRegrets
UpdateIteration(it) == it + 1

\* which regret branch of actionUtility a visit takes
AfterWarmup(it) == it > cfg.warmup

\* OwnNode without the test
OwnNodeAlways(player, node) == TRUE

\* the node-player test that guards the regret and EV block
OwnNode(player, node) == player = Tree[node].player

\* the regret write-back of actionUtility: new state after updateRegrets / copyStrategy
RegretBlock(player, node, reach_probs, it, deal, st, regrets, all_action_utility, payoffs) ==
    LET A == NumActions(node)
        H == Size(ranges[Tree[node].player])
        arg == [regrets |-> regrets, iteration_number |-> UpdateIteration(it),
                all_action_utility |-> all_action_utility, payoffs |-> payoffs]
    IN IF AfterWarmup(it)
       THEN [st EXCEPT
               !.tr[node][deal] = updateRegrets(@, regrets, UpdateIteration(it), A, H),
               !.log = Append(@, Event("updateRegrets", node, deal, player, it, deal, arg))]
       ELSE LET deals == getAllAbstractionDeal(deal)
                standard == updateRegrets(st.tr[node][deals[1]], regrets,
                                          UpdateIteration(it), A, H)
            IN [st EXCEPT
                  !.tr[node] =
                      Vec([d \in DOMAIN @ |->
                             IF d = deals[1] THEN standard
                             ELSE IF \E k \in 2..Len(deals) : deals[k] = d
                                  THEN copyStrategy(@[d], standard)
                                  ELSE @[d]]),
                  !.log = @ \o <<Event("updateRegrets", node, deals[1], player, it, deal, arg)>>
                            \o [k \in 1..(Len(deals) - 1) |->
                                  Event("copyStrategy", node, deals[k + 1], player, it, deal,
                                        [from |-> deals[1]])]]

\* the EV / equity recording of actionUtility, every print_interval iterations
EvBlock(player, node, reach_probs, it, deal, st, all_action_utility, all_action_equity) ==
    LET A == NumActions(node)
        H == Size(ranges[Tree[node].player])
        evs == Normalized(all_action_utility, player, reach_probs, A, H)
        st1 == [st EXCEPT
                  !.tr[node][deal] = setEv(@, evs),
                  !.log = Append(@, Event("setEv", node, deal, player, it, deal, [evs |-> evs]))]
        eqs == Normalized(all_action_equity, player, reach_probs, A, H)
    IN IF it % cfg.print_interval # 0 THEN st
       ELSE IF cfg.enable_equity
            THEN [st1 EXCEPT
                    !.tr[node][deal] = setEquity(@, eqs),
                    !.log = Append(@, Event("setEquity", node, deal, player, it, deal,
                                            [evs |-> eqs]))]
            ELSE st1

IsLeaf(node) == Tree[node].type \in {TERMINAL_NODE, SHOWDOWN_NODE}

\* cfr on a terminal or a showdown node
leafUtility(player, node, reach_probs, current_board) ==
    IF Tree[node].type = SHOWDOWN_NODE
    THEN showdownUtility(player, node, reach_probs, current_board)
    ELSE terminalUtility(player, node, reach_probs, current_board)

\* actionUtility up to its child loop: the trainable of the deal, its current strategy and
\* the results vector; the frame is the activation record of the call
actionUtilityBegin(player, node, reach_probs, it, current_board, deal, st) ==
    LET A == NumActions(node)
        H == Size(ranges[Tree[node].player])
    IN [frame |-> [node |-> node, reach_probs |-> reach_probs,
                   current_board |-> current_board, deal |-> deal, k |-> 0,
                   results |-> Vec([a \in 0..(A - 1) |-> NoResult]),
                   current_strategy |-> getcurrentStrategy(st.tr[node][deal], A, H),
                   valid_cards |-> <<>>, cardr |-> EmptyVec],
        st |-> [st EXCEPT !.log =
                   Append(@, Event("getcurrentStrategy", node, deal, player, it, deal, <<>>))]]

\* chanceUtility up to its loop of rand() calls: the results array, and the frame that
\* holds the cardr of every rank group drawn so far; without sampling valid_cards follows
chanceUtilityBegin(player, node, reach_probs, it, current_board, deal, st) ==
    [frame |-> [node |-> node, reach_probs |-> reach_probs,
                current_board |-> current_board, deal |-> deal, k |-> 0,
                results |-> Vec([c \in Deck |-> NoResult]),
                current_strategy |-> EmptyVec,
                valid_cards |-> IF it <= cfg.warmup THEN <<>>
                                ELSE ValidCards(it, current_board, deal, EmptyVec),
                cardr |-> EmptyVec],
     st |-> st]

\* cfr on an action or a chance node: the dispatch on the node type
cfr(player, node, reach_probs, it, current_board, deal, st) ==
    IF Tree[node].type = ACTION_NODE
    THEN actionUtilityBegin(player, node, reach_probs, it, current_board, deal, st)
    ELSE chanceUtilityBegin(player, node, reach_probs, it, current_board, deal, st)

\* whether the frame is in the loop of rand() calls of chanceUtility
Drawing(f, it) ==
    Tree[f.node].type = CHANCE_NODE /\ it <= cfg.warmup /\ Size(f.cardr) < NumRanks

\* one iteration of that loop in the innermost frame: rand() % 4 is the cardr of the next
\* rank group; after the last group valid_cards is built.  Inside a parallel region the
\* call gets the value the schedule of the region's rand() calls has for it
chanceUtilityDraw(it, st) ==
    LET f == st.stack[Len(st.stack)]
        seed == RandNext(st.seed)
        drawn == IF st.sched = <<>> THEN RandValue(seed) % 4 ELSE Head(st.sched)
        cardr == Vec([card_base \in 0..Size(f.cardr) |->
                        IF card_base < Size(f.cardr) THEN f.cardr[card_base]
                        ELSE drawn])
    IN [st EXCEPT !.seed = seed,
                  !.sched = IF @ = <<>> THEN @ ELSE Tail(@),
                  !.stack[Len(st.stack)] =
                      [f EXCEPT !.cardr = cardr,
                                !.valid_cards =
                                    IF Size(cardr) = NumRanks
                                    THEN ValidCards(it, f.current_board, f.deal, cardr)
                                    ELSE <<>>]]

RECURSIVE chanceUtilityDraws(_, _)
\* the whole loop of rand() calls of the innermost frame, if it is in one: the calls of a
\* traversal that runs alone follow each other
chanceUtilityDraws(it, st) ==
    IF st.stack # <<>> /\ Drawing(st.stack[Len(st.stack)], it)
    THEN chanceUtilityDraws(it, chanceUtilityDraw(it, st))
    ELSE st

\* schedule(static) over n loop indices for a team of size threads: thread t runs the
\* indices StaticLo(size, t, n) .. StaticLo(size, t + 1, n) - 1; the first n % size threads
\* get one index more than the others
StaticLo(size, t, n) == (n \div size) * t + (IF t < n % size THEN t ELSE n % size)

RECURSIVE NestedDraws(_, _, _, _, _)
\* the rand() calls of a cfr call on node that runs alone from the generator state seed:
\* while iter <= warmup chanceUtility makes card_num / 4 of them, then come those of its
\* child calls, valid card by valid card; the child calls of an action node follow each
\* other too
NestedDraws(node, it, current_board, deal, seed) ==
    LET cardr == Vec([card_base \in 0..(NumRanks - 1) |->
                        RandValue(RandAfter(seed, card_base + 1)) % 4])
        valid_cards == ValidCards(it, current_board, deal, cardr)
        RECURSIVE cards(_)
        cards(k) ==
            IF k = 0 THEN NumRanks
            ELSE LET before == cards(k - 1)
                 IN before + NestedDraws(Tree[node].children, it,
                                         current_board \cup {valid_cards[k]},
                                         NewDeal(deal, valid_cards[k]), RandAfter(seed, before))
        RECURSIVE actions(_)
        actions(k) ==
            IF k = 0 THEN 0
            ELSE LET before == actions(k - 1)
                 IN before + NestedDraws(Child(node, k - 1), it, current_board, deal,
                                         RandAfter(seed, before))
    IN IF it > cfg.warmup THEN 0
       ELSE IF Tree[node].type = CHANCE_NODE THEN cards(Len(valid_cards))
       ELSE IF Tree[node].type = ACTION_NODE THEN actions(NumActions(node))
       ELSE 0

\* whether the innermost frame is a chance node with no chance node above it in the call
\* chain: its loop is run by the team, a loop met inside it by the thread that meets it
\* (nothing in the program turns nested parallel regions on)
Outermost(frames) ==
    /\ Tree[frames[Len(frames)].node].type = CHANCE_NODE
    /\ \A k \in 1..(Len(frames) - 1) : Tree[frames[k].node].type # CHANCE_NODE

\* the orders in which the rand() calls of a region can follow each other: for every call
\* the thread that makes it.  owners lists, loop index by loop index, the thread of every
\* call of the region; each thread makes the calls of its own indices
Merges(size, owners) ==
    {m \in [DOMAIN owners -> 0..(size - 1)] :
        \A t \in 0..(size - 1) :
            Cardinality({j \in DOMAIN m : m[j] = t})
                = Cardinality({i \in DOMAIN owners : owners[i] = t})}

\* rand() % 4 of the calls of the region, listed loop index by loop index, when the calls
\* follow each other as in m: the l-th call of thread t returns what the call at the place
\* of the l-th t in m returns
Scheduled(m, owners, seed) ==
    [i \in DOMAIN owners |->
        LET t == owners[i]
            l == Cardinality({x \in 1..i : owners[x] = t})
            j == CHOOSE p \in DOMAIN m :
                    m[p] = t /\ Cardinality({x \in 1..p : m[x] = t}) = l
        IN RandValue(RandAfter(seed, j)) % 4]

\* what the next child call of the innermost frame may find in sched: when the call opens
\* the parallel loop of a team of threads while iter <= warmup, any schedule of the rand()
\* calls of the threads; else what is left of the schedule of the running region.  The
\* child calls of the outermost chance node of Tree have one chanceUtility below them, so
\* the number of their rand() calls is the same whatever values the calls return
Schedules(it, st) ==
    LET f == st.stack[Len(st.stack)]
        n == Len(f.valid_cards)
        draws == [i \in 1..n |->
                    NestedDraws(Tree[f.node].children, it,
                                f.current_board \cup {f.valid_cards[i]},
                                NewDeal(f.deal, f.valid_cards[i]), st.seed)]
        thread(valid_ind) ==
            CHOOSE t \in 0..(cfg.num_threads - 1) :
                /\ StaticLo(cfg.num_threads, t, n) <= valid_ind
                /\ valid_ind < StaticLo(cfg.num_threads, t + 1, n)
        RECURSIVE owners(_)
        owners(i) ==
            IF i > n THEN <<>> ELSE [k \in 1..draws[i] |-> thread(i - 1)] \o owners(i + 1)
    IN IF cfg.num_threads > 1 /\ it <= cfg.warmup /\ Outermost(st.stack) /\ f.k = 0
       THEN {Scheduled(m, owners(1), st.seed) : m \in Merges(cfg.num_threads, owners(1))}
       ELSE {st.sched}

\* whether the child loop of a frame has iterations left
Pending(f) ==
    f.k < (IF Tree[f.node].type = ACTION_NODE THEN NumActions(f.node) ELSE Len(f.valid_cards))

\* actionUtilityChild that hands reach_probs on at the nodes of either player
actionUtilityChildSameReach(player, f) ==
    [node |-> Child(f.node, f.k), reach_probs |-> f.reach_probs,
     current_board |-> f.current_board, deal |-> f.deal, slot |-> f.k]

\* one iteration of the child loop of actionUtility: the arguments of the child call
actionUtilityChild(player, f) ==
    LET action_id == f.k
        card_number == Size(ranges[Tree[f.node].player])
        new_reach_prob ==
            IF Tree[f.node].player # player
            THEN Vec([hand_id \in DOMAIN f.reach_probs |->
                    FMul(f.reach_probs[hand_id],
                         f.current_strategy[hand_id + action_id * card_number])])
            ELSE f.reach_probs
    IN [node |-> Child(f.node, action_id), reach_probs |-> new_reach_prob,
        current_board |-> f.current_board, deal |-> f.deal, slot |-> action_id]

\* one iteration of the parallel loop of chanceUtility: the arguments of the child call
chanceUtilityChild(player, f) ==
    LET card == f.valid_cards[f.k + 1]
    IN [node |-> Tree[f.node].children,
        reach_probs |-> NewReachProbs(player, f.reach_probs, card, f.current_board),
        current_board |-> f.current_board \cup {card},
        deal |-> NewDeal(f.deal, card), slot |-> ResultSlot(card)]

NextChild(player, f) ==
    IF Tree[f.node].type = ACTION_NODE THEN actionUtilityChild(player, f)
    ELSE chanceUtilityChild(player, f)

\* results[slot] = child result, and the loop moves on
Store(f, slot, result) == [f EXCEPT !.results[slot] = result, !.k = @ + 1]

\* the call of an inner node: its activation record goes on top of the call chain
Enter(b) == [b.st EXCEPT !.stack = Append(@, b.frame)]

\* the child call c of the top frame: a leaf returns at once, an inner node is entered
ChildCall(player, it, st, c) ==
    IF IsLeaf(c.node)
    THEN [st EXCEPT !.stack[Len(st.stack)] =
             Store(@, c.slot, leafUtility(player, c.node, c.reach_probs, c.current_board))]
    ELSE Enter(cfr(player, c.node, c.reach_probs, it, c.current_board, c.deal, st))

\* the top frame makes its next child call
Descend(player, it, st) ==
    ChildCall(player, it, st, NextChild(player, st.stack[Len(st.stack)]))

\* the end of actionUtility: on a node of the traversing player the regrets, the regret
\* block and then the EV block; the CfrResult of the node
actionUtilityEnd(player, f, it, st, all_action_utility, all_action_equity, payoffs, total_equity) ==
    [payoffs |-> payoffs, equity |-> total_equity,
     st |-> IF OwnNode(player, f.node)
            THEN EvBlock(player, f.node, f.reach_probs, it, f.deal,
                         RegretBlock(player, f.node, f.reach_probs, it, f.deal, st,
                                     Regrets(all_action_utility, payoffs, NumActions(f.node),
                                             Size(ranges[Tree[f.node].player])),
                                     all_action_utility, payoffs),
                         all_action_utility, all_action_equity)
            ELSE st]

\* actionUtility after its child loop: the utilities per action and the payoffs of the node
actionUtility(player, f, it, st) ==
    LET node == f.node
        node_player == Tree[node].player
        A == NumActions(node)
        H == Size(ranges[node_player])
        current_strategy == f.current_strategy
        results == f.results
        all_action_utility == Vec([a \in 0..(A - 1) |-> results[a].payoffs])
        all_action_equity == Vec([a \in 0..(A - 1) |-> results[a].equity])
        weighted(values, hand_id) ==
            SumTo([a \in 0..(A - 1) |->
                     IF Size(values[a]) = 0 THEN 0
                     ELSE IF player = node_player
                          THEN FMul(current_strategy[hand_id + a * H], values[a][hand_id])
                          ELSE values[a][hand_id]], A)
        payoffs == Vec([hand_id \in DOMAIN ranges[player] |->
                          weighted(all_action_utility, hand_id)])
        total_equity == IF cfg.enable_equity
                        THEN Vec([hand_id \in DOMAIN ranges[player] |->
                                    weighted(all_action_equity, hand_id)])
                        ELSE EmptyVec
    IN actionUtilityEnd(player, f, it, st, all_action_utility, all_action_equity, payoffs,
                        total_equity)

\* chanceUtility after its parallel loop: the serial accumulation
chanceUtility(player, f, it, st) ==
    LET totals == ChanceTotals(player, f.results, it, f.current_board, f.deal, f.cardr)
    IN [payoffs |-> totals.payoffs, equity |-> totals.equity, st |-> st]

\* the slot of the caller's results the returning child fills
ChildSlot(f) ==
    IF Tree[f.node].type = ACTION_NODE THEN f.k ELSE ResultSlot(f.valid_cards[f.k + 1])

\* the return of the top frame of frames with r: the CfrResult goes into the results of the
\* caller, or out of the traversal
Return(frames, r) ==
    IF Len(frames) = 1
    THEN [r.st EXCEPT !.stack = <<>>, !.result = CfrResult(r.payoffs, r.equity)]
    ELSE [r.st EXCEPT !.stack =
             [SubSeq(frames, 1, Len(frames) - 1) EXCEPT
                 ![Len(frames) - 1] = Store(@, ChildSlot(@), CfrResult(r.payoffs, r.equity))]]

\* the top frame returns its CfrResult to its caller, or out of the traversal
Ascend(player, it, st) ==
    Return(st.stack,
           IF Tree[st.stack[Len(st.stack)].node].type = ACTION_NODE
           THEN actionUtility(player, st.stack[Len(st.stack)], it, st)
           ELSE chanceUtility(player, st.stack[Len(st.stack)], it, st))

-----------------------------------------------------------------------------
(* The driver: PCfrSolver::PCfrSolver and PCfrSolver::train *)

\* values BestResponse::printExploitability may return
ExploitValues == {0, One}

\* srand(s): 31 words of the Lehmer sequence 16807 * x mod (2^31 - 1) from s, the old end
\* three words in, then 310 values thrown away
srand(s) ==
    LET step(word) ==
            LET w == 16807 * (word % 127773) - 2836 * (word \div 127773)
            IN IF w < 0 THEN w + 2147483647 ELSE w
        RECURSIVE words(_, _)
        words(word, n) == IF n = 0 THEN <<>> ELSE <<word>> \o words(step(word), n - 1)
        r == words(IF s = 0 THEN 1 ELSE s, 31)
        state == [k \in 1..31 |->
                    LET w == IF k <= 28 THEN r[k + 3] ELSE r[k - 28]
                    IN <<w \div 65536, w % 65536>>]
    IN RandAfter(state, 310)

\* generator states the run may start from: nothing in the program calls srand, so rand()
\* starts as it does after srand(1)
Seeds == {srand(1)}

\* the warmup settings tried: the boundary at iteration 0, and one iteration before it
Warmups == {0, 1}

\* the runs with one thread
SerialConfigs ==
    [initial_board : Boards,
     use_isomorphism : BOOLEAN,
     enable_equity : {FALSE},
     warmup : Warmups,
     print_interval : 1..2,
     iteration_number : {MaxIterations},
     accuracy : {Half},
     logfile : {"log"},
     num_threads : {1}]

\* the runs with a team of threads: one iteration, which is sampled, on the board whose
\* sampled flop region has a card for each of two threads
TeamConfigs ==
    [initial_board : {{0, 1, 6}},
     use_isomorphism : {FALSE},
     enable_equity : {FALSE},
     warmup : {0},
     print_interval : {1},
     iteration_number : {TeamIterations},
     accuracy : {Half},
     logfile : {"log"},
     num_threads : {NumThreads}]

Configs == SerialConfigs \cup TeamConfigs

IdlePar == [phase |-> "off", team |-> 0]

Init ==
    /\ cfg \in Configs
    /\ ranges = InitialRanges(cfg.initial_board)
    /\ pc = "setup"
    /\ color_iso_offset = NoIsomorphisms
    /\ trainables = [n \in ActionNodes |->
                       [d \in 0..(TrainableNum(n) - 1) |->
                          NewTrainable(NumActions(n), Size(ranges[Tree[n].player]))]]
    /\ rand_state \in Seeds
    /\ iter = 0
    /\ player_id = 0
    /\ calls = <<>>
    /\ stack = <<>>
    /\ trace = <<>>
    /\ root_result = NoResult
    /\ prev = trainables
    /\ first_print = FALSE
    /\ probes = <<>>
    /\ logfile = <<>>
    /\ par = IdlePar
    /\ sched = <<>>

\* ProbeDue with a strict comparison against warmup
ProbeDueStrict(i) == i % cfg.print_interval = 0 /\ i # 0 /\ i > cfg.warmup

\* the probe condition of the training loop
ProbeDue(i) == i % cfg.print_interval = 0 /\ i # 0 /\ i >= cfg.warmup

\* Converged with the comparison turned around
ConvergedFlipped(e) == ~IsNaN(e) /\ ~IsNaN(cfg.accuracy) /\ e >= cfg.accuracy

\* the accuracy test that ends the training loop: expliotibility <= accuracy, which is
\* false when either is NaN
Converged(e) == ~IsNaN(e) /\ ~IsNaN(cfg.accuracy) /\ e <= cfg.accuracy

\* this->player_number
player_number == 2

\* the loop header of train: the next iteration, or the end of the loop
NextIteration ==
    /\ iter' = iter + 1
    /\ player_id' = 0
    /\ pc' = IF iter + 1 < cfg.iteration_number THEN "cfr" ELSE "done"

\* train() up to its loop: the isomorphism table and the first exploitability print
TrainStart ==
    /\ pc = "setup"
    /\ color_iso_offset' = IF cfg.use_isomorphism
                           THEN findGameSpecificIsomorphisms(cfg.initial_board)
                           ELSE color_iso_offset
    /\ first_print' = TRUE
    /\ pc' = IF 0 < cfg.iteration_number THEN "cfr" ELSE "done"
    /\ UNCHANGED <<cfg, ranges, trainables, rand_state, iter, player_id, calls, stack, trace,
                   root_result, prev, probes, logfile, par, sched>>

\* RootCall with the traversing player's own reach vector
RootCallOwnReach(p, i) ==
    [player |-> p, node |-> Root, reach_probs |-> getReachProbs[p], iter |-> i,
     current_board |-> cfg.initial_board, deal |-> 0]

\* the arguments of the root call of cfr in iteration i for player p
RootCall(p, i) ==
    [player |-> p, node |-> Root, reach_probs |-> getReachProbs[1 - p], iter |-> i,
     current_board |-> cfg.initial_board, deal |-> 0]

\* the traversal state the steps of cfr work on
Machine == [stack |-> stack, tr |-> trainables, log |-> trace, seed |-> rand_state,
            result |-> root_result, sched |-> sched]

\* train calls cfr(player_id, root, reach_probs[1 - player_id], i, initial_board, 0)
CfrCall ==
    /\ pc = "cfr"
    /\ \E c \in {RootCall(player_id, iter)} :
         /\ \E st \in {chanceUtilityDraws(c.iter,
                             Enter(cfr(c.player, c.node, c.reach_probs, c.iter,
                                       c.current_board, c.deal,
                                       [Machine EXCEPT !.log = <<>>])))} :
              /\ stack' = st.stack
              /\ trace' = st.log
              /\ rand_state' = st.seed
              /\ sched' = st.sched
         /\ calls' = Append(calls, c)
    /\ prev' = trainables
    /\ pc' = "run"
    /\ UNCHANGED <<cfg, ranges, color_iso_offset, trainables, iter, player_id, root_result,
                   first_print, probes, logfile, par>>

\* the traversal makes the next child call of its innermost node.  The child calls of a
\* parallel loop are taken in the order of valid_cards: the threads of a team share no
\* trainable, and all that the order of their steps decides is which rand() call of the
\* sampled iterations returns which value, and that is chosen when the loop is opened
CfrDescend ==
    /\ pc = "run"
    /\ Pending(stack[Len(stack)])
    /\ \E q \in Schedules(iter, Machine) :
         \E st \in {chanceUtilityDraws(iter, Descend(player_id, iter,
                                                      [Machine EXCEPT !.sched = q]))} :
            /\ stack' = st.stack
            /\ trace' = st.log
            /\ rand_state' = st.seed
            /\ sched' = st.sched
    /\ UNCHANGED <<pc, cfg, ranges, color_iso_offset, trainables, iter, player_id, calls,
                   root_result, prev, first_print, probes, logfile, par>>

\* the innermost node returns; when the root returns, the loop of train goes on
CfrAscend ==
    /\ pc = "run"
    /\ ~Pending(stack[Len(stack)])
    /\ \E st \in {Ascend(player_id, iter, Machine)} :
          /\ stack' = st.stack
          /\ trace' = st.log
          /\ trainables' = st.tr
          /\ root_result' = st.result
          /\ rand_state' = st.seed
          /\ IF st.stack # <<>>
             THEN UNCHANGED <<pc, iter, player_id>>
             ELSE IF player_id + 1 < player_number
                  THEN player_id' = player_id + 1 /\ pc' = "cfr" /\ UNCHANGED iter
                  ELSE IF ProbeDue(iter)
                       THEN pc' = "probe" /\ UNCHANGED <<iter, player_id>>
                       ELSE NextIteration
    /\ UNCHANGED <<cfg, ranges, color_iso_offset, calls, prev, first_print, probes, logfile,
                   par, sched>>

\* printExploitability inside the loop, the log line and the accuracy test
Probe ==
    /\ pc = "probe"
    /\ \E e \in ExploitValues :
         /\ probes' = Append(probes, <<iter, e>>)
         /\ logfile' = IF cfg.logfile # ""
                       THEN Append(logfile, [iteration |-> iter, exploitibility |-> e])
                       ELSE logfile
         /\ IF Converged(e)
            THEN pc' = "done" /\ UNCHANGED <<iter, player_id>>
            ELSE NextIteration
    /\ UNCHANGED <<cfg, ranges, color_iso_offset, trainables, rand_state, calls, stack, trace,
                   root_result, prev, first_print, par, sched>>

Next == TrainStart \/ CfrCall \/ CfrDescend \/ CfrAscend \/ Probe

Spec == Init /\ [][Next]_vars

TypeOK == pc \in {"setup", "cfr", "run", "region", "probe", "done"}

-----------------------------------------------------------------------------
(* The parallel region of chanceUtility: #pragma omp parallel for schedule(static), thread
   by thread.  When the traversal of a run with a team of threads has opened the loop of
   its outermost chance node, the loop is run from that state by a team of one thread and
   then by the team of the run, so that the two outcomes can be compared; pc stays
   "region". *)

Threads == 0..(par.team - 1)

\* the first loop index of thread t's chunk of n indices
ChunkLo(t, n) == StaticLo(par.team, t, n)

\* the trainables an access reads or writes, as <<node, deal, "R" or "W">>
Footprint(ev) ==
    CASE ev.op = "getcurrentStrategy" -> {<<ev.node, ev.deal, "R">>}
      [] ev.op = "copyStrategy" -> {<<ev.node, ev.deal, "W">>, <<ev.node, ev.arg.from, "R">>}
      [] OTHER -> {<<ev.node, ev.deal, "W">>}

Footprints(log) == UNION {Footprint(log[k]) : k \in 1..Len(log)}

\* the team at the start of the loop
Team(size, n) ==
    [team |-> size,
     next |-> [t \in 0..(size - 1) |-> StaticLo(size, t, n)],
     stack |-> [t \in 0..(size - 1) |-> <<>>],
     touched |-> [t \in 0..(size - 1) |-> {}],
     results |-> Vec([c \in Deck |-> NoResult]),
     stored |-> <<>>,
     totals |-> NoResult]

\* the traversal is in chanceUtility of its outermost chance node, before the parallel
\* loop: the loop is entered with a team of one thread
ParStart ==
    /\ pc = "run"
    /\ par.phase = "off"
    /\ cfg.num_threads > 1
    /\ Outermost(stack)
    /\ stack[Len(stack)].k = 0
    /\ par' = [phase |-> "serial", player |-> player_id, iter |-> iter,
               frame |-> stack[Len(stack)], seed |-> rand_state, entry |-> trainables,
               ref_totals |-> NoResult]
              @@ Team(1, Len(stack[Len(stack)].valid_cards))
    /\ pc' = "region"
    /\ UNCHANGED <<cfg, ranges, color_iso_offset, trainables, rand_state, iter, player_id,
                   calls, stack, trace, root_result, prev, first_print, probes, logfile,
                   sched>>

\* the traversal state of thread t: its own call chain on the shared trainables and rand()
ThreadMachine(t) ==
    [stack |-> par.stack[t], tr |-> trainables, log |-> <<>>, seed |-> rand_state,
     result |-> NoResult, sched |-> <<>>]

\* thread t after a step of its call chain that left it in st; slot is the results slot
\* of the loop iteration it is in
ThreadAfter(t, st, slot) ==
    LET q == [par EXCEPT !.stack[t] = st.stack,
                         !.touched[t] = @ \cup Footprints(st.log)]
    IN IF st.stack = <<>>
       THEN [q EXCEPT !.results[slot] = st.result,
                      !.stored = Append(@, slot),
                      !.next[t] = @ + 1]
       ELSE q

\* a thread starts the body of the loop for its next valid_ind
IterStart(t) ==
    /\ par.phase \in {"serial", "run"}
    /\ par.stack[t] = <<>>
    /\ par.next[t] < ChunkLo(t + 1, Len(par.frame.valid_cards))
    /\ \E c \in {chanceUtilityChild(par.player, [par.frame EXCEPT !.k = par.next[t]])} :
         \E st \in {IF IsLeaf(c.node)
                    THEN [ThreadMachine(t) EXCEPT
                            !.result = leafUtility(par.player, c.node, c.reach_probs,
                                                   c.current_board)]
                    ELSE Enter(cfr(par.player, c.node, c.reach_probs, par.iter,
                                   c.current_board, c.deal, ThreadMachine(t)))} :
            /\ par' = ThreadAfter(t, st, c.slot)
            /\ rand_state' = st.seed
    /\ UNCHANGED <<pc, cfg, ranges, color_iso_offset, trainables, iter, player_id, calls,
                   stack, trace, root_result, prev, first_print, probes, logfile, sched>>

\* the results slot of the loop iteration thread t is in
IterSlot(t) == ChildSlot([par.frame EXCEPT !.k = par.next[t]])

\* thread t, in the loop of rand() calls of a chanceUtility below its child call, makes the
\* next call; the calls of the other threads may come before and after it
IterDraw(t) ==
    /\ par.phase \in {"serial", "run"}
    /\ par.stack[t] # <<>>
    /\ Drawing(par.stack[t][Len(par.stack[t])], par.iter)
    /\ \E st \in {chanceUtilityDraw(par.iter, ThreadMachine(t))} :
          /\ par' = ThreadAfter(t, st, IterSlot(t))
          /\ rand_state' = st.seed
    /\ UNCHANGED <<pc, cfg, ranges, color_iso_offset, trainables, iter, player_id, calls,
                   stack, trace, root_result, prev, first_print, probes, logfile, sched>>

\* the child call of thread t makes its next call
IterDescend(t) ==
    /\ par.phase \in {"serial", "run"}
    /\ par.stack[t] # <<>>
    /\ ~Drawing(par.stack[t][Len(par.stack[t])], par.iter)
    /\ Pending(par.stack[t][Len(par.stack[t])])
    /\ \E st \in {Descend(par.player, par.iter, ThreadMachine(t))} :
          /\ par' = ThreadAfter(t, st, IterSlot(t))
          /\ rand_state' = st.seed
    /\ UNCHANGED <<pc, cfg, ranges, color_iso_offset, trainables, iter, player_id, calls,
                   stack, trace, root_result, prev, first_print, probes, logfile, sched>>

\* the innermost node of thread t returns; the child call's return fills results
IterAscend(t) ==
    /\ par.phase \in {"serial", "run"}
    /\ par.stack[t] # <<>>
    /\ ~Drawing(par.stack[t][Len(par.stack[t])], par.iter)
    /\ ~Pending(par.stack[t][Len(par.stack[t])])
    /\ \E st \in {Ascend(par.player, par.iter, ThreadMachine(t))} :
          /\ par' = ThreadAfter(t, st, IterSlot(t))
          /\ trainables' = st.tr
    /\ UNCHANGED <<pc, cfg, ranges, color_iso_offset, rand_state, iter, player_id, calls,
                   stack, trace, root_result, prev, first_print, probes, logfile, sched>>

\* whether thread t has left the parallel loop
ThreadDone(t) ==
    par.stack[t] = <<>> /\ par.next[t] >= ChunkLo(t + 1, Len(par.frame.valid_cards))

\* the barrier at the end of the parallel loop
AllJoined == \A t \in Threads : ThreadDone(t)

\* the serial loop after the parallel one: accumulate every card into the chance totals
Accumulate ==
    /\ par.phase \in {"serial", "run"}
    /\ AllJoined
    /\ \E r \in {chanceUtility(par.player, [par.frame EXCEPT !.results = par.results],
                               par.iter, ThreadMachine(0))} :
          par' = [par EXCEPT !.phase = IF @ = "serial" THEN "joined" ELSE "done",
                             !.totals = CfrResult(r.payoffs, r.equity)]
    /\ UNCHANGED <<pc, cfg, ranges, color_iso_offset, trainables, rand_state, iter, player_id,
                   calls, stack, trace, root_result, prev, first_print, probes, logfile,
                   sched>>

\* the same region again from the state it was entered in, with the team of the run
Rerun ==
    /\ par.phase = "joined"
    /\ par' = [phase |-> "run", player |-> par.player, iter |-> par.iter,
               frame |-> par.frame, seed |-> par.seed, entry |-> par.entry,
               ref_totals |-> par.totals]
              @@ Team(cfg.num_threads, Len(par.frame.valid_cards))
    /\ trainables' = par.entry
    /\ rand_state' = par.seed
    /\ UNCHANGED <<pc, cfg, ranges, color_iso_offset, iter, player_id, calls, stack, trace,
                   root_result, prev, first_print, probes, logfile, sched>>

ParNext ==
    \/ TrainStart
    \/ CfrCall
    \/ CfrDescend
    \/ CfrAscend
    \/ Probe
    \/ ParStart
    \/ \E t \in Threads : IterStart(t)
    \/ \E t \in Threads : IterDraw(t)
    \/ \E t \in Threads : IterDescend(t)
    \/ \E t \in Threads : IterAscend(t)
    \/ Accumulate
    \/ Rerun

\* the runs whose regions are run thread by thread; every outermost chance loop of these
\* runs is.  With isomorphism, RegionIterations iterations at either warmup: the board of
\* three suits alike, and a board whose flop region after warmup has two cards of one rank
\* on different threads.  At the warmup boundary, TeamIterations iterations: the board whose
\* sampled flop region has a card for each of two threads, with and without isomorphism
ParConfigs ==
    [initial_board : {{0, 1, 2}, {8, 9, 10}},
     use_isomorphism : {TRUE},
     enable_equity : {FALSE},
     warmup : Warmups,
     print_interval : {1},
     iteration_number : {RegionIterations},
     accuracy : {Half},
     logfile : {"log"},
     num_threads : {NumThreads}]
    \cup
    [initial_board : {{0, 1, 6}},
     use_isomorphism : BOOLEAN,
     enable_equity : {FALSE},
     warmup : {0},
     print_interval : {1},
     iteration_number : {TeamIterations},
     accuracy : {Half},
     logfile : {"log"},
     num_threads : {NumThreads}]

ParInit ==
    /\ cfg \in ParConfigs
    /\ ranges = InitialRanges(cfg.initial_board)
    /\ pc = "setup"
    /\ color_iso_offset = NoIsomorphisms
    /\ trainables = [n \in ActionNodes |->
                       [d \in 0..(TrainableNum(n) - 1) |->
                          NewTrainable(NumActions(n), Size(ranges[Tree[n].player]))]]
    /\ rand_state \in Seeds
    /\ iter = 0
    /\ player_id = 0
    /\ calls = <<>>
    /\ stack = <<>>
    /\ trace = <<>>
    /\ root_result = NoResult
    /\ prev = trainables
    /\ first_print = FALSE
    /\ probes = <<>>
    /\ logfile = <<>>
    /\ par = IdlePar
    /\ sched = <<>>

ParSpec == ParInit /\ [][ParNext]_vars

-----------------------------------------------------------------------------
(* The isomorphism table over every initial board: train() up to the table *)

\* every flop of the deck
AllBoards == {b \in SUBSET Deck : Cardinality(b) = 3}

IsoConfigs ==
    [initial_board : AllBoards,
     use_isomorphism : {TRUE},
     enable_equity : {FALSE},
     warmup : {0},
     print_interval : {1},
     iteration_number : {MaxIterations},
     accuracy : {Half},
     logfile : {"log"},
     num_threads : {1}]

IsoInit ==
    /\ cfg \in IsoConfigs
    /\ ranges = InitialRanges(cfg.initial_board)
    /\ pc = "setup"
    /\ color_iso_offset = NoIsomorphisms
    /\ trainables = [n \in ActionNodes |->
                       [d \in 0..(TrainableNum(n) - 1) |->
                          NewTrainable(NumActions(n), Size(ranges[Tree[n].player]))]]
    /\ rand_state \in Seeds
    /\ iter = 0
    /\ player_id = 0
    /\ calls = <<>>
    /\ stack = <<>>
    /\ trace = <<>>
    /\ root_result = NoResult
    /\ prev = trainables
    /\ first_print = FALSE
    /\ probes = <<>>
    /\ logfile = <<>>
    /\ par = IdlePar
    /\ sched = <<>>

IsoSpec == IsoInit /\ [][TrainStart]_vars

-----------------------------------------------------------------------------
(* train() with and without equity tracking *)

EquityConfigs ==
    [initial_board : Boards,
     use_isomorphism : BOOLEAN,
     enable_equity : BOOLEAN,
     warmup : {0},
     print_interval : {1},
     iteration_number : {MaxIterations},
     accuracy : {Half},
     logfile : {"log"},
     num_threads : {1}]
    \cup {[c EXCEPT !.enable_equity = TRUE] : c \in TeamConfigs}

EquityInit ==
    /\ cfg \in EquityConfigs
    /\ ranges = InitialRanges(cfg.initial_board)
    /\ pc = "setup"
    /\ color_iso_offset = NoIsomorphisms
    /\ trainables = [n \in ActionNodes |->
                       [d \in 0..(TrainableNum(n) - 1) |->
                          NewTrainable(NumActions(n), Size(ranges[Tree[n].player]))]]
    /\ rand_state \in Seeds
    /\ iter = 0
    /\ player_id = 0
    /\ calls = <<>>
    /\ stack = <<>>
    /\ trace = <<>>
    /\ root_result = NoResult
    /\ prev = trainables
    /\ first_print = FALSE
    /\ probes = <<>>
    /\ logfile = <<>>
    /\ par = IdlePar
    /\ sched = <<>>

EquitySpec == EquityInit /\ [][Next]_vars

-----------------------------------------------------------------------------
(* DiscountedCfrTrainable on its own: updateRegrets and copyStrategy called in any order on
   two trainables of one action node *)

\* the action node whose trainables are called, and the two deals they belong to
TrainableNode == CHOOSE n \in ActionNodes : \A m \in ActionNodes : TrainableNum(m) <= TrainableNum(n)
TrainableDeals == {0, 1}
TrainableActions == NumActions(TrainableNode)
TrainableHands == Size(ranges[Tree[TrainableNode].player])

\* regret vectors handed to updateRegrets: mixed signs over actions and hands
RegretInputs ==
    {[idx \in 0..(TrainableActions * TrainableHands - 1) |->
         FDiv(FromInt(((idx * 2 + k) % 5) - 2), FromInt(4))] : k \in 0..3}

TrainableConfigs ==
    {c \in SerialConfigs : c.use_isomorphism /\ c.warmup = 0 /\ c.print_interval = 1}

TrainableInit ==
    /\ cfg \in TrainableConfigs
    /\ ranges = InitialRanges(cfg.initial_board)
    /\ pc = "setup"
    /\ color_iso_offset = NoIsomorphisms
    /\ trainables = [n \in ActionNodes |->
                       [d \in 0..(TrainableNum(n) - 1) |->
                          NewTrainable(NumActions(n), Size(ranges[Tree[n].player]))]]
    /\ rand_state \in Seeds
    /\ iter = 0
    /\ player_id = 0
    /\ calls = <<>>
    /\ stack = <<>>
    /\ trace = <<>>
    /\ root_result = NoResult
    /\ prev = trainables
    /\ first_print = FALSE
    /\ probes = <<>>
    /\ logfile = <<>>
    /\ par = IdlePar
    /\ sched = <<>>

\* trainables[node][d].updateRegrets(regrets, iteration_number); iter counts the calls
CallUpdateRegrets ==
    /\ iter < MaxIterations
    /\ \E d \in TrainableDeals, regrets \in RegretInputs, iteration_number \in {1, MaxIterations} :
         /\ trainables' = [trainables EXCEPT ![TrainableNode][d] =
                              updateRegrets(@, regrets, iteration_number, TrainableActions,
                                            TrainableHands)]
         /\ trace' = Append(trace, Event("updateRegrets", TrainableNode, d, player_id, iter, d,
                                         [regrets |-> regrets,
                                          iteration_number |-> iteration_number]))
    /\ iter' = iter + 1
    /\ UNCHANGED <<pc, cfg, ranges, color_iso_offset, rand_state, player_id, calls, stack,
                   root_result, prev, first_print, probes, logfile, par, sched>>

\* trainables[node][d].copyStrategy(trainables[node][o])
CallCopyStrategy ==
    /\ iter < MaxIterations
    /\ \E d \in TrainableDeals, o \in TrainableDeals :
         /\ d # o
         /\ trainables' = [trainables EXCEPT ![TrainableNode][d] =
                              copyStrategy(@, trainables[TrainableNode][o])]
         /\ trace' = Append(trace, Event("copyStrategy", TrainableNode, d, player_id, iter, d,
                                         [from |-> o]))
    /\ iter' = iter + 1
    /\ UNCHANGED <<pc, cfg, ranges, color_iso_offset, rand_state, player_id, calls, stack,
                   root_result, prev, first_print, probes, logfile, par, sched>>

TrainableNext == CallUpdateRegrets \/ CallCopyStrategy

TrainableSpec == TrainableInit /\ [][TrainableNext]_vars

-----------------------------------------------------------------------------
(* terminalUtility and showdownUtility on their own: called for either player with any reach
   vector, on a board that holds the initial board and up to two dealt cards *)

\* ranges denser than the driver's: hands that share a card, hands held by both players,
\* hands of equal strength
LeafRange1 ==
    [k \in 0..4 |->
        CASE k = 0 -> [hand |-> Hand(4, 5), weight |-> One]
          [] k = 1 -> [hand |-> Hand(3, 7), weight |-> One]
          [] k = 2 -> [hand |-> Hand(5, 7), weight |-> Half]
          [] k = 3 -> [hand |-> Hand(8, 9), weight |-> One]
          [] k = 4 -> [hand |-> Hand(6, 11), weight |-> One]]

LeafRange2 ==
    [k \in 0..5 |->
        CASE k = 0 -> [hand |-> Hand(3, 7), weight |-> One]
          [] k = 1 -> [hand |-> Hand(4, 7), weight |-> One]
          [] k = 2 -> [hand |-> Hand(5, 10), weight |-> Half]
          [] k = 3 -> [hand |-> Hand(8, 11), weight |-> One]
          [] k = 4 -> [hand |-> Hand(4, 5), weight |-> One]
          [] k = 5 -> [hand |-> Hand(9, 10), weight |-> One]]

LeafInputs == {<<InputRange1, InputRange2>>, <<LeafRange1, LeafRange2>>}

\* the boards of the nodes at and below the root
LeafBoards(initial_board) ==
    {initial_board \cup dealt :
        dealt \in {d \in SUBSET (Deck \ initial_board) : Cardinality(d) <= 2}}

\* reach vectors of n hands: uniform ones, and ones that differ from hand to hand
LeafReach(n) ==
    {[i \in 0..(n - 1) |-> r] : r \in {0, Half, One}}
      \cup {[i \in 0..(n - 1) |-> FDiv(FromInt((i * k + 1) % 3), FromInt(2))] : k \in 1..2}

TerminalNodes == {n \in DOMAIN Tree : Tree[n].type = TERMINAL_NODE}
ShowdownNodes == {n \in DOMAIN Tree : Tree[n].type = SHOWDOWN_NODE}

LeafConfigs ==
    [initial_board : Boards,
     use_isomorphism : {FALSE},
     enable_equity : BOOLEAN,
     warmup : {0},
     print_interval : {1},
     iteration_number : {MaxIterations},
     accuracy : {Half},
     logfile : {"log"},
     num_threads : {1}]

LeafInit ==
    /\ cfg \in LeafConfigs
    /\ \E in \in LeafInputs :
         ranges = [p \in 0..1 |-> noDuplicateRange(in[p + 1], cfg.initial_board)]
    /\ pc = "setup"
    /\ color_iso_offset = NoIsomorphisms
    /\ trainables = [n \in ActionNodes |->
                       [d \in 0..(TrainableNum(n) - 1) |->
                          NewTrainable(NumActions(n), Size(ranges[Tree[n].player]))]]
    /\ rand_state \in Seeds
    /\ iter = 0
    /\ player_id = 0
    /\ calls = <<>>
    /\ stack = <<>>
    /\ trace = <<>>
    /\ root_result = NoResult
    /\ prev = trainables
    /\ first_print = FALSE
    /\ probes = <<>>
    /\ logfile = <<>>
    /\ par = IdlePar
    /\ sched = <<>>

LeafCall(op, player, node, reach_probs, current_board) ==
    [op |-> op, player |-> player, node |-> node, reach_probs |-> reach_probs,
     current_board |-> current_board]

\* root_result = terminalUtility(player, node, reach_prob, iter, current_board, deal), once
CallTerminalUtility ==
    /\ calls = <<>>
    /\ \E player \in 0..1, node \in TerminalNodes, current_board \in LeafBoards(cfg.initial_board) :
         \E reach_prob \in LeafReach(Size(ranges[1 - player])) :
            /\ calls' = <<LeafCall("terminalUtility", player, node, reach_prob, current_board)>>
            /\ root_result' = terminalUtility(player, node, reach_prob, current_board)
    /\ UNCHANGED <<pc, cfg, ranges, color_iso_offset, trainables, rand_state, iter, player_id,
                   stack, trace, prev, first_print, probes, logfile, par, sched>>

\* root_result = showdownUtility(player, node, reach_probs, iter, current_board, deal), once
CallShowdownUtility ==
    /\ calls = <<>>
    /\ \E player \in 0..1, node \in ShowdownNodes, current_board \in LeafBoards(cfg.initial_board) :
         \E reach_probs \in LeafReach(Size(ranges[1 - player])) :
            /\ calls' = <<LeafCall("showdownUtility", player, node, reach_probs, current_board)>>
            /\ root_result' = showdownUtility(player, node, reach_probs, current_board)
    /\ UNCHANGED <<pc, cfg, ranges, color_iso_offset, trainables, rand_state, iter, player_id,
                   stack, trace, prev, first_print, probes, logfile, par, sched>>

LeafNext == CallTerminalUtility \/ CallShowdownUtility

LeafSpec == LeafInit /\ [][LeafNext]_vars

-----------------------------------------------------------------------------

(* The constructor on its own: PCfrSolver::PCfrSolver called with any two range lists, any
   trainer name and trees whose last action node lies two or three rounds after the root *)

MaxRangeLen == 3       \* longest range list given to the constructor

\* a list of hands as the vector<PrivateCards> the constructor receives
RangeOf(s) == [k \in 0..(Len(s) - 1) |-> [hand |-> s[k + 1], weight |-> One]]

\* the range lists tried, duplicates included; (0,4) overlaps every initial board tried
RangeInputs ==
    {RangeOf(s) :
        s \in UNION {[1..n -> {Hand(4, 5), Hand(0, 4), Hand(8, 9), Hand(3, 7)}] :
                        n \in 0..MaxRangeLen}}

Trainers == {"discounted_cfr", "cfr_plus", "cfr"}

\* the round gaps of the action nodes: those of Tree, and the same with the last round one later
SetupRounds ==
    {[n \in ActionNodes |-> Tree[n].round],
     [n \in ActionNodes |-> IF Tree[n].round = 2 THEN 3 ELSE Tree[n].round]}

\* PrivateCards::hashCode: the key of the unordered pair of cards
hashCode(hand) ==
    IF hand.card1 <= hand.card2 THEN <<hand.card1, hand.card2>> ELSE <<hand.card2, hand.card1>>

\* noDuplicateRangeThrows with the key looked up after the board filter: only hands off the
\* initial board are remembered
noDuplicateRangeThrowsOffBoard(private_range) ==
    \E i \in DOMAIN private_range : \E j \in DOMAIN private_range :
        /\ i < j
        /\ hashCode(private_range[i].hand) = hashCode(private_range[j].hand)
        /\ ~boardsHasIntercept(HandCards(private_range[i].hand), cfg.initial_board)

\* noDuplicateRange throws: some entry has the key of an earlier entry
noDuplicateRangeThrows(private_range) ==
    \E i \in DOMAIN private_range : \E j \in DOMAIN private_range :
        i < j /\ hashCode(private_range[i].hand) = hashCode(private_range[j].hand)

\* SlotsOfGap without the last else: any other gap gets the table of the root round
SlotsOfGapNoThrow(gap) ==
    IF gap = 2 THEN card_num * card_num + card_num + 1
    ELSE IF gap = 1 THEN card_num + 1
    ELSE 1

\* the number of trainable slots setTrainable gives a node of that gap; 0 when it throws
SlotsOfGap(gap) ==
    IF gap = 2 THEN card_num * card_num + card_num + 1
    ELSE IF gap = 1 THEN card_num + 1
    ELSE IF gap = 0 THEN 1
    ELSE 0

RECURSIVE setTrainable(_, _, _, _)
\* setTrainable(root) in the order of its recursion: at the node tables attached so far, and
\* whether an exception has left the recursion
setTrainable(root, trainer, rounds, done) ==
    IF done.threw THEN done
    ELSE IF Tree[root].type = ACTION_NODE
    THEN IF trainer # "discounted_cfr" \/ SlotsOfGap(rounds[root]) = 0
         THEN [done EXCEPT !.threw = TRUE]
         ELSE LET here == [done EXCEPT !.at = (root :> SlotsOfGap(rounds[root])) @@ @]
                  RECURSIVE children(_, _)
                  children(k, d) ==
                      IF k > NumActions(root) THEN d
                      ELSE children(k + 1, setTrainable(Child(root, k - 1), trainer, rounds, d))
              IN children(1, here)
    ELSE IF Tree[root].type = CHANCE_NODE
    THEN setTrainable(Tree[root].children, trainer, rounds, done)
    ELSE done

SetupInit ==
    /\ cfg \in LeafConfigs
    /\ cfg.enable_equity = FALSE
    /\ pc = "new"
    /\ \E range1 \in RangeInputs, range2 \in {InputRange2, RangeOf(<<Hand(9, 11), Hand(9, 11)>>)} :
         \E trainer \in Trainers, rounds \in SetupRounds :
            calls = <<[range1 |-> range1, range2 |-> range2, trainer |-> trainer,
                       rounds |-> rounds]>>
    /\ ranges = <<>>
    /\ trainables = <<>>
    /\ color_iso_offset = NoIsomorphisms
    /\ rand_state \in Seeds
    /\ iter = 0
    /\ player_id = 0
    /\ stack = <<>>
    /\ trace = <<>>
    /\ root_result = NoResult
    /\ prev = <<>>
    /\ first_print = FALSE
    /\ probes = <<>>
    /\ logfile = <<>>
    /\ par = IdlePar
    /\ sched = <<>>

\* PCfrSolver::PCfrSolver: the two ranges, then setTrainable(root); an exception of either
\* leaves no solver, the tables setTrainable attached to the tree before it stay attached
Construct ==
    /\ pc = "new"
    /\ \E in \in {calls[1]} :
         IF noDuplicateRangeThrows(in.range1) \/ noDuplicateRangeThrows(in.range2)
         THEN pc' = "failed" /\ UNCHANGED <<ranges, trainables>>
         ELSE \E r \in {[p \in 0..1 |->
                           noDuplicateRange(IF p = 0 THEN in.range1 ELSE in.range2,
                                            cfg.initial_board)]} :
              \E done \in {setTrainable(Root, in.trainer, in.rounds,
                                        [at |-> <<>>, threw |-> FALSE])} :
                 /\ trainables' = [n \in DOMAIN done.at |->
                                     [d \in 0..(done.at[n] - 1) |->
                                        NewTrainable(NumActions(n), Size(r[Tree[n].player]))]]
                 /\ IF done.threw
                    THEN pc' = "failed" /\ UNCHANGED ranges
                    ELSE pc' = "setup" /\ ranges' = r
    /\ UNCHANGED <<cfg, color_iso_offset, rand_state, iter, player_id, calls, stack, trace,
                   root_result, prev, first_print, probes, logfile, par, sched>>

SetupSpec == SetupInit /\ [][Construct]_vars

-----------------------------------------------------------------------------

(* Properties of the parallel region *)

\* C1: within the parallel loop of a chance node, whatever the iteration (during warmup, at
\* the warmup boundary or after it), no trainable written by one worker (updateRegrets,
\* copyStrategy, setEv, setEquity) is written or read by another worker.
C1_WorkersShareNoTrainable ==
    \A t1, t2 \in Threads :
        t1 # t2 =>
            \A a \in par.touched[t1], b \in par.touched[t2] :
                a[3] = "W" => <<a[1], a[2]>> # <<b[1], b[2]>>

\* a region at or before the warmup boundary has ended in which every thread wrote trainables
C1_Witness ==
    /\ par.phase = "done"
    /\ par.iter <= cfg.warmup
    /\ \A t \in Threads : \E a \in par.touched[t] : a[3] = "W"

\* no slot of the results array is written twice, nothing is accumulated while the loop runs,
\* and the totals of the regions in iters equal those of the one-thread run
TotalsIndependent(iters) ==
    par.phase # "off" =>
        /\ \A i, j \in 1..Len(par.stored) : i # j => par.stored[i] # par.stored[j]
        /\ par.phase \in {"serial", "run"} => par.totals = NoResult
        /\ (par.phase = "done" /\ par.iter \in iters) => par.totals = par.ref_totals

\* the part of C2 that holds in every run: distinct slots, accumulation after the loop, and,
\* in iterations after warmup, totals that are the same for every interleaving of the workers
C2_TotalsIndependentAfterWarmup ==
    TotalsIndependent({it \in 0..cfg.iteration_number : it > cfg.warmup})

\* C2: every worker writes its child result into a slot of its own, the
\* accumulation runs only after all workers have finished, and the totals of the chance node
\* are the same for every interleaving of the workers.
C2_TotalsIndependent == TotalsIndependent(0..cfg.iteration_number)

\* a region after warmup has ended with both teams' totals, each thread having stored results
C2_Witness ==
    /\ par.phase = "done"
    /\ par.iter > cfg.warmup
    /\ Len(par.stored) > NumThreads
    /\ \E h \in DOMAIN par.totals.payoffs : par.totals.payoffs[h] # 0

-----------------------------------------------------------------------------
(* Properties of the traversal *)

\* the regret and average-strategy state of a trainable
RegretState(t) ==
    [r_plus |-> t.r_plus, r_plus_sum |-> t.r_plus_sum, cum_r_plus |-> t.cum_r_plus]

TopFrame == stack[Len(stack)]

\* the next step of the traversal is the return of a node of type ty
Returning(ty) == pc = "run" /\ ~Pending(TopFrame) /\ Tree[TopFrame.node].type = ty

\* the next step is the return of an action node of the traversing player
OwnReturn == Returning(ACTION_NODE) /\ Tree[TopFrame.node].player = player_id

\* the trainable accesses made by the step
NewEvents == SubSeq(trace', Len(trace) + 1, Len(trace'))

EventsOf(log, op) == {k \in 1..Len(log) : log[k].op = op}

\* the CfrResult the returning node hands to its caller
Returned ==
    IF Len(stack) = 1 THEN root_result'
    ELSE stack'[Len(stack) - 1].results[ChildSlot(stack[Len(stack) - 1])]

\* the step leaves the regret state of every trainable but those of node n, deals ds, as it is
OthersKeep(n, ds) ==
    \A m \in ActionNodes : \A d \in DOMAIN trainables[m] :
        (m # n \/ d \notin ds) =>
            RegretState(trainables'[m][d]) = RegretState(trainables[m][d])

Min(S) == CHOOSE x \in S : \A y \in S : x <= y

\* C3: during cfr(player, ...) the trainables of the action nodes of the other player keep
\* their whole state (regrets, regret sums, cumulative strategy, EVs, equities).
C3_OpponentTrainablesUnchanged ==
    [][\A n \in ActionNodes : Tree[n].player # player_id => trainables'[n] = trainables[n]]_vars

\* a traversal has returned that read the strategy of an opponent node and wrote trainables
C3_Witness ==
    /\ pc = "cfr"
    /\ calls # <<>>
    /\ trainables # prev
    /\ \E k \in 1..Len(trace) : Tree[trace[k].node].player # trace[k].player

\* C4: in a traversal with iter < warmup no trainable's r_plus, r_plus_sum or cum_r_plus
\* changes, and neither updateRegrets nor copyStrategy is called.
C4_WarmupSkipsRegretUpdate ==
    [][(pc = "run" /\ iter < cfg.warmup) =>
          /\ OthersKeep(0, {})
          /\ EventsOf(NewEvents, "updateRegrets") = {}
          /\ EventsOf(NewEvents, "copyStrategy") = {}]_vars

\* the cards dealt since the root under an abstract deal id, and the id of such cards
DealCards(d) ==
    IF d = 0 THEN <<>>
    ELSE IF d <= card_num THEN <<d - 1>>
    ELSE <<(d - 1 - card_num) \div card_num, (d - 1 - card_num) % card_num>>

DealOf(cards) ==
    IF Len(cards) = 0 THEN 0
    ELSE IF Len(cards) = 1 THEN cards[1] + 1
    ELSE card_num * cards[1] + cards[2] + 1 + card_num

\* the cards of the rank of c that are not on the initial board
RankMates(c) == {x \in Deck : RankOf(x) = RankOf(c) /\ x \notin cfg.initial_board}

\* the rank group of a deal: each dealt card replaced by a card of its rank off the initial
\* board, the cards distinct
RankClass(d) ==
    LET cs == DealCards(d)
    IN IF Len(cs) = 0 THEN {0}
       ELSE IF Len(cs) = 1 THEN {DealOf(<<x>>) : x \in RankMates(cs[1])}
       ELSE {DealOf(<<q[1], q[2]>>) :
                q \in {r \in RankMates(cs[1]) \X RankMates(cs[2]) : r[1] # r[2]}}

\* the suit permutations that keep the initial board: equivalent suits are exchanged
SuitSymmetries ==
    {q \in [0..3 -> 0..3] :
        /\ \A s, t \in 0..3 : s # t => q[s] # q[t]
        /\ \A s \in 0..3 : ColorHash(cfg.initial_board, q[s]) = ColorHash(cfg.initial_board, s)}

\* the suit-isomorphism class of a deal: its images under the suit symmetries of the board
IsoClass(d) ==
    LET cs == DealCards(d)
    IN {DealOf([k \in 1..Len(cs) |-> RankOf(cs[k]) * 4 + q[SuitOf(cs[k])]]) :
           q \in SuitSymmetries}

\* the returning visit updates the regrets of the least deal of class once, copies them to
\* exactly the other deals of class, leaves class with equal r_plus and cum_r_plus, and
\* writes the regret state of no other trainable
SyncVisit(class) ==
    LET f == TopFrame
        canonical == Min(class)
        ups == EventsOf(NewEvents, "updateRegrets")
        cps == EventsOf(NewEvents, "copyStrategy")
    IN /\ f.deal \in class
       /\ Cardinality(ups) = 1
       /\ \A k \in ups : NewEvents[k].node = f.node /\ NewEvents[k].deal = canonical
       /\ Cardinality(cps) = Cardinality(class) - 1
       /\ {NewEvents[k].deal : k \in cps} = class \ {canonical}
       /\ \A k \in cps : NewEvents[k].node = f.node
       /\ \A d \in class :
             /\ trainables'[f.node][d].r_plus = trainables'[f.node][canonical].r_plus
             /\ trainables'[f.node][d].cum_r_plus = trainables'[f.node][canonical].cum_r_plus
       /\ OthersKeep(f.node, class)

\* C5 (as amended): at the warmup boundary (iter = warmup) a visit to an action node of the
\* traversing player with deal d applies updateRegrets exactly once, to the first deal of d's
\* rank group (the dealt cards replaced by cards of their ranks off the initial board), and
\* copyStrategy to exactly the other deals of the group; afterwards all deals of the group,
\* d included, hold equal r_plus and cum_r_plus, and no deal outside the group is written.
C5_RankGroupSynchronised ==
    [][(OwnReturn /\ iter = cfg.warmup) => SyncVisit(RankClass(TopFrame.deal))]_vars

\* C5 (as stated): at the warmup boundary a visit to an action node of the traversing player
\* with deal d applies updateRegrets exactly once, to the canonical deal of d's
\* suit-isomorphism class, and copyStrategy to exactly the other deals of the class; afterwards
\* all deals of the class hold equal r_plus and cum_r_plus, and no deal outside it is written.
C5_IsoClassSynchronised ==
    [][(OwnReturn /\ iter = cfg.warmup) => SyncVisit(IsoClass(TopFrame.deal))]_vars

\* a boundary traversal has copied the regrets of one two-card deal to another
C5_Witness ==
    /\ iter = cfg.warmup
    /\ \E k \in 1..Len(trace) :
          /\ trace[k].op = "copyStrategy"
          /\ trace[k].iter = iter
          /\ trace[k].deal > card_num

\* the returning visit calls updateRegrets once, on its own trainable, with iteration iter + 1
\* and the regrets of its child results against its returned payoffs
UpdateVisit ==
    LET f == TopFrame
        A == NumActions(f.node)
        H == Size(ranges[player_id])
        ups == EventsOf(NewEvents, "updateRegrets")
        regrets == [idx \in 0..(A * H - 1) |->
                       FSub(f.results[idx \div H].payoffs[idx % H], Returned.payoffs[idx % H])]
    IN /\ Cardinality(ups) = 1
       /\ EventsOf(NewEvents, "copyStrategy") = {}
       /\ \A k \in ups :
             /\ NewEvents[k].node = f.node
             /\ NewEvents[k].deal = f.deal
             /\ NewEvents[k].arg.iteration_number = iter + 1
             /\ NewEvents[k].arg.regrets = regrets
       /\ RegretState(trainables'[f.node][f.deal]) =
              RegretState(updateRegrets(trainables[f.node][f.deal], regrets, iter + 1, A, H))
       /\ OthersKeep(f.node, {f.deal})

\* C6: in a traversal with iter > warmup each visit to an action node of the traversing
\* player with deal d calls updateRegrets exactly once, with iteration iter + 1 and
\* regrets[a, h] = result[a].payoffs[h] - payoffs[h], on the trainable of (node, d), and changes
\* the regret and average-strategy state of no other trainable.
C6_OneUpdatePerVisit == [][(OwnReturn /\ iter > cfg.warmup) => UpdateVisit]_vars

\* a traversal after warmup has updated the regrets of a two-card deal
C6_Witness ==
    /\ iter > cfg.warmup
    /\ \E k \in 1..Len(trace) :
          /\ trace[k].op = "updateRegrets"
          /\ trace[k].iter = iter
          /\ trace[k].deal > card_num

\* the returning chance node counts every card off its board once: its own traversed child,
\* or the suit-permuted result of a traversed sibling of an equivalent suit
EveryCardCounted ==
    LET f == TopFrame
        offset(c) == color_iso_offset[f.deal][SuitOf(c)]
        traversed(c) == \E k \in 1..Len(f.valid_cards) : f.valid_cards[k] = c
        part(c) ==
            IF c \in f.current_board THEN Zeros(Size(ranges[player_id]))
            ELSE IF offset(c) = 0 THEN f.results[c].payoffs
            ELSE exchange_color(f.results[c + offset(c)].payoffs, ranges[player_id],
                                SuitOf(c), SuitOf(c) + offset(c))
    IN /\ \A c \in Deck \ f.current_board :
             /\ offset(c) <= 0
             /\ SuitOf(c) + offset(c) >= 0
             /\ traversed(c + offset(c))
       /\ Returned.payoffs =
              [h \in DOMAIN ranges[player_id] |-> SumTo([c \in Deck |-> part(c)[h]], card_num)]

\* C10: after warmup (iter > warmup) every card off the current board contributes exactly
\* once, with weight 1, to the totals of a chance node: its own child result when the offset of
\* its suit is 0, else the suit-permuted result of a canonical sibling that was traversed; the
\* cards on the board contribute nothing.
C10_EveryCardCountedOnce ==
    [][(Returning(CHANCE_NODE) /\ iter > cfg.warmup) => EveryCardCounted]_vars

\* every skipped suit of the row of a deal points to a suit that is traversed
RowCanonical(deal) ==
    \A s \in 0..3 :
        color_iso_offset[deal][s] < 0 => color_iso_offset[deal][s + color_iso_offset[deal][s]] = 0

\* the part of C10 that holds: the cards are counted once each at the chance nodes whose row
\* of color_iso_offset points to traversed suits only
C10_CountedWhereCanonical ==
    [][(Returning(CHANCE_NODE) /\ iter > cfg.warmup /\ RowCanonical(TopFrame.deal))
          => EveryCardCounted]_vars

\* the cards of rank group g that are off a board, and those of them in a list of cards
OffBoard(g, board) == {c \in Deck : RankOf(c) = g /\ c \notin board}
Traversed(g, f) == {c \in OffBoard(g, f.current_board) :
                       \E k \in 1..Len(f.valid_cards) : f.valid_cards[k] = c}

\* the returning chance node has traversed one card of every rank group that has a card off
\* its board and no other card, and its totals weigh the result of that card by the number of
\* cards of the group off the board
OneCardPerRankGroup ==
    LET f == TopFrame
        groups == {g \in 0..(NumRanks - 1) : OffBoard(g, f.current_board) # {}}
        rep(g) == CHOOSE c \in Traversed(g, f) : TRUE
        part(g, h) == IF g \in groups
                      THEN FMul(f.results[rep(g)].payoffs[h],
                                FromInt(Cardinality(OffBoard(g, f.current_board))))
                      ELSE 0
    IN /\ \A g \in groups : Cardinality(Traversed(g, f)) = 1
       /\ Len(f.valid_cards) = Cardinality(groups)
       /\ Returned.payoffs =
              [h \in DOMAIN ranges[player_id] |->
                  SumTo([g \in 0..(NumRanks - 1) |-> part(g, h)], NumRanks)]

\* C14: during warmup (iter <= warmup in chanceUtility) every rank group that has at least one
\* card not on the current board is represented at the chance node by exactly one traversed
\* card, whose result enters the chance totals weighted by the number of cards of the group
\* not on the board; all other cards of the group are neither traversed nor accumulated.
C14_OneCardPerRankGroup ==
    [][(Returning(CHANCE_NODE) /\ iter <= cfg.warmup) => OneCardPerRankGroup]_vars

RECURSIVE DealtBelow(_)
\* the cards the chance nodes among the frames 1..j-1 have dealt to their running child call
DealtBelow(j) ==
    IF j <= 1 THEN <<>>
    ELSE IF Tree[stack[j - 1].node].type = CHANCE_NODE
         THEN Append(DealtBelow(j - 1), stack[j - 1].valid_cards[stack[j - 1].k + 1])
         ELSE DealtBelow(j - 1)

\* the sequences of at most two distinct cards
DealSeqs == {<<>>} \cup {<<i>> : i \in Deck} \cup {q \in Deck \X Deck : q[1] # q[2]}

\* different dealt sequences have different ids, one-card ids lie in 1..D, two-card ids in
\* D+1..D+D*D
DealIdsDistinct ==
    /\ \A a, b \in DealSeqs : DealOf(a) = DealOf(b) => a = b
    /\ \A a \in DealSeqs :
          /\ Len(a) = 1 => DealOf(a) \in 1..card_num
          /\ Len(a) = 2 => DealOf(a) \in (card_num + 1)..(card_num + card_num * card_num)

\* deal is the id of the cards dealt, and they are what board holds more than the initial board
IdentifiesDealt(deal, board, dealt) ==
    /\ dealt \in DealSeqs
    /\ deal = DealOf(dealt)
    /\ DealCards(deal) = dealt
    /\ {dealt[k] : k \in 1..Len(dealt)} = board \ cfg.initial_board
    /\ cfg.initial_board \subseteq board

\* C15: at every node reached by cfr the abstract deal id identifies exactly the cards dealt
\* since the root (current_board minus initial_board): 0 when none, i + 1 when only card i was
\* dealt, D * i + j + 1 + D when card i and then card j were dealt; different dealt sequences
\* never get the same id, and one-card ids (1..D) never collide with two-card ids
\* (D+1..D+D*D).
C15_DealIdentifiesDealtCards ==
    /\ DealIdsDistinct
    /\ pc = "run" =>
          /\ \A j \in 1..Len(stack) :
                IdentifiesDealt(stack[j].deal, stack[j].current_board, DealtBelow(j))
          /\ (stack # <<>> /\ Pending(TopFrame)) =>
                IdentifiesDealt(NextChild(player_id, TopFrame).deal,
                                NextChild(player_id, TopFrame).current_board,
                                DealtBelow(Len(stack) + 1))

\* an action node is visited after two cards have been dealt
C15_Witness ==
    /\ pc = "run"
    /\ stack # <<>>
    /\ Tree[TopFrame.node].type = ACTION_NODE
    /\ Len(DealtBelow(Len(stack))) = 2
    /\ TopFrame.deal > card_num

\* the next step is a child call that returns at once: a terminal or a showdown node
LeafReturn == pc = "run" /\ Pending(TopFrame) /\ IsLeaf(NextChild(player_id, TopFrame).node)

\* the CfrResult the leaf hands to its caller
LeafReturned == stack'[Len(stack)].results[NextChild(player_id, TopFrame).slot]

\* payoffs as long as the range of the traversing player, equity as long or empty
Sized(r) ==
    /\ Size(r.payoffs) = Size(ranges[player_id])
    /\ Size(r.equity) = (IF cfg.enable_equity THEN Size(ranges[player_id]) ELSE 0)

\* C19: every cfr call, at action, chance, terminal and showdown nodes alike, returns a
\* payoffs vector whose length equals the traversing player's range size, and an equity vector
\* of that same length when equity tracking is enabled and of length 0 when it is disabled.
C19_ResultLengths ==
    [][/\ (pc = "run" /\ ~Pending(TopFrame)) => Sized(Returned)
       /\ LeafReturn => Sized(LeafReturned)]_vars

\* a traversal with equity tracking has returned from the root with an equity that is not zero
C19_Witness ==
    /\ cfg.enable_equity
    /\ pc = "cfr"
    /\ player_id = 1
    /\ Size(ranges[0]) # Size(ranges[1])
    /\ \E h \in DOMAIN root_result.equity : root_result.equity[h] # 0

\* the hands of player p that hold a card of a board
Blocked(p, board) ==
    {h \in DOMAIN ranges[p] : boardsHasIntercept(HandCards(ranges[p][h].hand), board)}

\* C20 (as stated): no hand in either player's range overlaps the current board at any node
\* reached during traversal, including nodes below a chance node where the current board holds
\* cards dealt after the root.
C20_NoHandOnCurrentBoard ==
    pc = "run" =>
        \A j \in 1..Len(stack) : \A p \in 0..1 : Blocked(p, stack[j].current_board) = {}

\* C20 (as amended): no hand in either player's range overlaps the initial board; at the
\* nodes below a chance node the hands that hold a dealt card stay in the ranges, the
\* opponent's with reach probability 0 and the traversing player's with payoff 0 in every
\* result returned.
C20_BlockedHandsCountNothing ==
    /\ [](\A p \in 0..1 : Blocked(p, cfg.initial_board) = {})
    /\ [](pc = "run" =>
             \A j \in 1..Len(stack) : \A h \in Blocked(1 - player_id, stack[j].current_board) :
                 stack[j].reach_probs[h] = 0)
    /\ [][/\ (pc = "run" /\ ~Pending(TopFrame)) =>
               (\A h \in Blocked(player_id, TopFrame.current_board) : Returned.payoffs[h] = 0)
          /\ LeafReturn =>
               (\A h \in Blocked(1 - player_id, NextChild(player_id, TopFrame).current_board) :
                     NextChild(player_id, TopFrame).reach_probs[h] = 0)
          /\ LeafReturn =>
               (\A h \in Blocked(player_id, NextChild(player_id, TopFrame).current_board) :
                     LeafReturned.payoffs[h] = 0)]_vars

\* a node below a chance node is visited with a hand of each player that holds a dealt card,
\* while other hands of the traversing player have got payoffs
C20_Witness ==
    /\ pc = "run"
    /\ stack # <<>>
    /\ Blocked(0, TopFrame.current_board) # {}
    /\ Blocked(1, TopFrame.current_board) # {}
    /\ \E a \in DOMAIN TopFrame.results : \E h \in DOMAIN TopFrame.results[a].payoffs :
          TopFrame.results[a].payoffs[h] # 0

-----------------------------------------------------------------------------
(* Properties of the isomorphism table *)

\* the board the row of a deal is computed for: the initial board and the card dealt
RowBoard(deal) == IF deal = 0 THEN cfg.initial_board ELSE cfg.initial_board \cup {deal - 1}

\* the rows findGameSpecificIsomorphisms fills
FilledDeals == 0..card_num

\* the suits equivalent to s on a board
EquivalentSuits(board, s) == {j \in 0..3 : ColorHash(board, j) = ColorHash(board, s)}

\* C11: for every deal index filled by findGameSpecificIsomorphisms and every suit s whose
\* color_iso_offset[deal][s] is negative, the suit s + offset is the first (lowest-index) suit
\* equivalent to s and is itself canonical (its offset is 0), also when three or four suits
\* are equivalent.
C11_PointsToFirstCanonical ==
    pc # "setup" =>
        \A deal \in FilledDeals : \A s \in 0..3 :
            color_iso_offset[deal][s] < 0 =>
                /\ s + color_iso_offset[deal][s] = Min(EquivalentSuits(RowBoard(deal), s))
                /\ color_iso_offset[deal][s + color_iso_offset[deal][s]] = 0

\* the result of the child call of chance frame f for card c when every card is traversed
\* itself: the child is an action node above leaves, and reads the strategies the traversal
\* started with
OwnResult(f, c) ==
    LET child == chanceUtilityChild(player_id, [f EXCEPT !.valid_cards = <<c>>, !.k = 0])
        begun == actionUtilityBegin(player_id, child.node, child.reach_probs, iter,
                                    child.current_board, child.deal,
                                    [Machine EXCEPT !.tr = prev, !.stack = <<>>])
        leaf(a) == actionUtilityChild(player_id, [begun.frame EXCEPT !.k = a])
        results == Vec([a \in 0..(NumActions(child.node) - 1) |->
                          leafUtility(player_id, leaf(a).node, leaf(a).reach_probs,
                                      leaf(a).current_board)])
    IN actionUtility(player_id, [begun.frame EXCEPT !.results = results,
                                                     !.k = NumActions(child.node)],
                     iter, begun.st).payoffs

\* the totals of chance frame f without the isomorphism table: every card off the board is
\* traversed itself, with the sampling of the warmup as it is
PlainTotals(f) ==
    LET weight(c) == IF c \in f.current_board THEN 0
                     ELSE IF iter > cfg.warmup THEN 1
                     ELSE Multiplier(c, f.current_board, f.cardr)
        own == [c \in Deck |-> IF weight(c) = 0 THEN Zeros(Size(ranges[player_id]))
                               ELSE OwnResult(f, c)]
    IN Vec([h \in DOMAIN ranges[player_id] |->
              SumTo([c \in Deck |-> IF iter > cfg.warmup THEN own[c][h]
                                    ELSE FMul(own[c][h], FromInt(weight(c)))], card_num)])

\* the next step is the return of a river chance node in the first traversal of the run,
\* whose children are action nodes above leaves
FirstRiverReturn ==
    /\ Returning(CHANCE_NODE)
    /\ Len(calls) = 1
    /\ \A a \in 0..(NumActions(Tree[TopFrame.node].children) - 1) :
          IsLeaf(Child(Tree[TopFrame.node].children, a))

\* C12: a traversal with use_isomorphism = true yields the same results as one with
\* use_isomorphism = false up to suit permutation; here for the payoffs a river chance node of
\* the first traversal returns: they equal the totals over every card traversed itself, up to
\* a swap of two suits that are equivalent on the board of the node (or no swap).
C12_SameAsWithoutIsomorphism ==
    [][(FirstRiverReturn /\ cfg.use_isomorphism) =>
          \E r1, r2 \in 0..3 :
              /\ r2 \in EquivalentSuits(TopFrame.current_board, r1)
              /\ Returned.payoffs =
                     exchange_color(PlainTotals(TopFrame), ranges[player_id], r1, r2)]_vars

\* the suit of a flop whose three cards share their suit
OneSuit(board) == \E s \in 0..3 : \A c \in board : SuitOf(c) = s
BoardSuit(board) == CHOOSE s \in 0..3 : \A c \in board : SuitOf(c) = s

\* the suits of offset 0 in the row of deal 0
CanonicalSuits == {s \in 0..3 : color_iso_offset[0][s] = 0}

\* C13 (as stated): for an initial board whose three cards are all of one suit,
\* color_iso_offset[0] has exactly one canonical suit (offset 0), the suit of the board, and
\* the three other suits have nonzero offsets.
C13_OneCanonicalSuit ==
    (pc # "setup" /\ OneSuit(cfg.initial_board)) =>
        /\ CanonicalSuits = {BoardSuit(cfg.initial_board)}
        /\ \A s \in 0..3 \ {BoardSuit(cfg.initial_board)} : color_iso_offset[0][s] # 0

\* C13 (as amended): for an initial board whose three cards are all of one suit,
\* color_iso_offset[0] has exactly two canonical suits (offset 0), the suit of the board and
\* the lowest of the three other suits; the two remaining suits have negative offsets.
C13_TwoCanonicalSuits ==
    (pc # "setup" /\ OneSuit(cfg.initial_board)) =>
        /\ CanonicalSuits = {BoardSuit(cfg.initial_board),
                             Min(0..3 \ {BoardSuit(cfg.initial_board)})}
        /\ \A s \in 0..3 \ CanonicalSuits : color_iso_offset[0][s] < 0

\* the table has been computed for a flop of one suit that is not suit 0
C13_Witness ==
    /\ pc # "setup"
    /\ OneSuit(cfg.initial_board)
    /\ BoardSuit(cfg.initial_board) # 0
    /\ color_iso_offset # NoIsomorphisms

-----------------------------------------------------------------------------
(* Properties of the trainable *)

\* the last call made on a trainable, and the trainable it was made on
LastCall == trace[Len(trace)]
Called == trainables[LastCall.node][LastCall.deal]

\* the sum over the actions of max(0, r_plus[a, h])
PositiveRegretSum(t, h) ==
    SumTo([a \in 0..(TrainableActions - 1) |-> FMax(0, t.r_plus[a * TrainableHands + h])],
          TrainableActions)

\* C16: after any updateRegrets call on a trainable, for every hand h, r_plus_sum[h] equals
\* the sum over actions of max(0, r_plus[a, h]) computed from the r_plus values stored by
\* that call; r_plus_sum is reset first and not carried over from earlier calls.
C16_RegretSumAfterUpdate ==
    (trace # <<>> /\ LastCall.op = "updateRegrets") =>
        \A h \in 0..(TrainableHands - 1) : Called.r_plus_sum[h] = PositiveRegretSum(Called, h)

\* a trainable with positive regret sums has been updated again, to other sums
C16_Witness ==
    /\ Len(trace) >= 2
    /\ LastCall.op = "updateRegrets"
    /\ trace[Len(trace) - 1].op = "updateRegrets"
    /\ trace[Len(trace) - 1].deal = LastCall.deal
    /\ \E h \in 0..(TrainableHands - 1) : Called.r_plus_sum[h] > 0
    /\ \E h \in 0..(TrainableHands - 1) : Called.r_plus_sum[h] = 0

\* C17: after t.copyStrategy(o) the two trainables are synchronized: t's r_plus and
\* cum_r_plus equal o's, t.getAverageStrategy() equals o.getAverageStrategy(), and
\* t.getcurrentStrategy() equals o.getcurrentStrategy(), whatever updateRegrets and
\* copyStrategy calls t and o received before.
C17_CopySynchronises ==
    (trace # <<>> /\ LastCall.op = "copyStrategy") =>
        LET t == Called
            o == trainables[LastCall.node][LastCall.arg.from]
        IN /\ t.r_plus = o.r_plus
           /\ t.cum_r_plus = o.cum_r_plus
           /\ getAverageStrategy(t, TrainableActions, TrainableHands)
                 = getAverageStrategy(o, TrainableActions, TrainableHands)
           /\ getcurrentStrategy(t, TrainableActions, TrainableHands)
                 = getcurrentStrategy(o, TrainableActions, TrainableHands)

\* a and b are at most n floats apart
Near(a, b, n) == a - b <= n /\ b - a <= n

\* the sum S of cum_r_plus[a, h] over the actions, and that of the average strategy
CumSum(t, h) ==
    SumTo([a \in 0..(TrainableActions - 1) |-> t.cum_r_plus[a * TrainableHands + h]],
          TrainableActions)
AverageSum(t, h) ==
    SumTo([a \in 0..(TrainableActions - 1) |->
             getAverageStrategy(t, TrainableActions, TrainableHands)[a * TrainableHands + h]],
          TrainableActions)

\* C18: in every state of a trainable reachable through updateRegrets and copyStrategy,
\* getAverageStrategy returns for each hand h probabilities that are non-negative and sum to 1
\* over the actions (up to the rounding of the divisions and of the sum, within one float per
\* action) when the sum S of cum_r_plus[a, h] over actions is positive, and exactly 1/A for
\* every action otherwise; S is never negative.
C18_AverageStrategyNormalised ==
    \A d \in TrainableDeals : \A h \in 0..(TrainableHands - 1) :
        LET t == trainables[TrainableNode][d]
            avg == getAverageStrategy(t, TrainableActions, TrainableHands)
        IN /\ CumSum(t, h) >= 0
           /\ \A a \in 0..(TrainableActions - 1) :
                 IF CumSum(t, h) > 0
                 THEN avg[a * TrainableHands + h] >= 0
                 ELSE avg[a * TrainableHands + h] = Reciprocals[TrainableActions]
           /\ CumSum(t, h) > 0 => Near(AverageSum(t, h), One, TrainableActions)

\* a trainable that got its regrets by copyStrategy and was updated afterwards has hands with
\* a positive sum S and an average strategy that is not uniform
C18_Witness ==
    /\ Len(trace) >= 2
    /\ LastCall.op = "updateRegrets"
    /\ \E k \in 1..(Len(trace) - 1) : trace[k].op = "copyStrategy" /\ trace[k].deal = LastCall.deal
    /\ \E h \in 0..(TrainableHands - 1) :
          /\ CumSum(Called, h) > 0
          /\ getAverageStrategy(Called, TrainableActions, TrainableHands)[h]
                # Reciprocals[TrainableActions]

-----------------------------------------------------------------------------
(* Properties of the driver *)

\* the child calls frame j of the stack has not yet got back; an inner frame waits for one
FrameWork(j) ==
    LET f == stack[j]
        total == IF Tree[f.node].type = ACTION_NODE THEN NumActions(f.node)
                 ELSE Len(f.valid_cards)
    IN 2 * (total - f.k) - (IF j < Len(stack) THEN 1 ELSE 0)

\* more than the work of any frame, and the longest chain of calls
WorkBase == 2 * card_num + 1
TreeDepth == Cardinality({n \in DOMAIN Tree : ~IsLeaf(n)})

RECURSIVE StackWork(_)
\* the work of the frames 1..j, the outermost frame weighing most
StackWork(j) ==
    IF j = 0 THEN 0 ELSE StackWork(j - 1) + FrameWork(j) * WorkBase ^ (TreeDepth - j)

CallSpan == WorkBase ^ TreeDepth
IterSpan == 2 + player_number * (CallSpan + 1)

\* a bound on the steps train() has left: iterations, then traversals, then child calls
Remaining ==
    LET iters == IterSpan * (cfg.iteration_number - 1 - iter)
        calls_left == (player_number - 1 - player_id) * (CallSpan + 1)
    IN CASE pc = "setup" -> IterSpan * cfg.iteration_number + 1
         [] pc = "cfr" -> iters + 2 + calls_left + CallSpan
         [] pc = "run" -> iters + 2 + calls_left + StackWork(Len(stack))
         [] pc = "probe" -> iters + 1
         [] OTHER -> 0

\* some step of train() can be taken
CanStep == pc \in {"setup", "cfr", "probe"} \/ (pc = "run" /\ stack # <<>>)

\* C7: train() terminates: every step lowers a natural number that bounds the steps left, and
\* no state before the end is stuck; it runs at most iteration_number iterations, ends earlier
\* only right after a probe that returned a value <= accuracy, and starts no traversal
\* afterwards.
C7_TrainTerminates ==
    /\ [][Remaining' < Remaining]_vars
    /\ [](Remaining >= 0 /\ (pc = "done" \/ CanStep))
    /\ [](/\ iter <= cfg.iteration_number
          /\ Len(calls) <= player_number * cfg.iteration_number)
    /\ []((pc = "done" /\ iter < cfg.iteration_number) =>
             /\ probes # <<>>
             /\ probes[Len(probes)][1] = iter
             /\ probes[Len(probes)][2] <= cfg.accuracy
             /\ Len(calls) = player_number * (iter + 1))
    /\ [][pc = "done" => calls' = calls]_vars

\* train() has ended before its last iteration
C7_Witness == pc = "done" /\ iter < cfg.iteration_number - 1

\* the iterations whose end has been passed
Decided ==
    {i \in 0..cfg.iteration_number :
        i < iter \/ (i = iter /\ pc = "done" /\ iter < cfg.iteration_number)}

\* the probes, the log lines and the early stop happen at the iterations in due, once each,
\* and at no other
ProbesExactlyAt(due) ==
    /\ \A i \in Decided :
          /\ Cardinality({k \in 1..Len(probes) : probes[k][1] = i}) = (IF i \in due THEN 1 ELSE 0)
          /\ Cardinality({k \in 1..Len(logfile) : logfile[k].iteration = i})
                = (IF i \in due THEN 1 ELSE 0)
    /\ (pc = "done" /\ iter < cfg.iteration_number) => iter \in due

\* C8 (as amended): the driver probes exploitability (and logs, and may stop) after iteration
\* iter exactly when iter >= warmup, iter # 0 and iter % print_interval = 0; after every other
\* iteration there is no probe, no log line and no early stop.
C8_ProbeFromWarmupOn ==
    ProbesExactlyAt({i \in 0..cfg.iteration_number :
                        i >= cfg.warmup /\ i # 0 /\ i % cfg.print_interval = 0})

\* C8 (as stated): the driver probes exploitability (and logs, and may stop) after iteration
\* iter exactly when iter > warmup and iter % print_interval = 0; after every other iteration
\* there is no probe, no log line and no early stop.
C8_ProbeAfterWarmup ==
    ProbesExactlyAt({i \in 0..cfg.iteration_number :
                        i > cfg.warmup /\ i % cfg.print_interval = 0})

\* the iteration at the warmup boundary has been probed, and an earlier one has not
C8_Witness ==
    /\ cfg.warmup \in Decided
    /\ \E k \in 1..Len(probes) : probes[k][1] = cfg.warmup
    /\ \E i \in Decided : \A k \in 1..Len(probes) : probes[k][1] # i

\* C9: every iteration runs exactly two traversals from the root, for player 0 and then for
\* player 1, each with the opponent's initial range weights as reach vector, the initial board
\* and deal 0; the traversal of player 1 starts only after that of player 0 has returned and
\* written its regrets.
C9_TwoRootTraversals ==
    /\ [](\A k \in 1..Len(calls) :
             LET p == (k - 1) % 2
             IN calls[k] = [player |-> p, node |-> Root,
                            reach_probs |-> [h \in DOMAIN ranges[1 - p] |->
                                                ranges[1 - p][h].weight],
                            iter |-> (k - 1) \div 2,
                            current_board |-> cfg.initial_board, deal |-> 0])
    /\ []((pc = "cfr" => Len(calls) = 2 * iter + player_id)
          /\ (pc = "run" => Len(calls) = 2 * iter + player_id + 1)
          /\ (pc = "probe" => Len(calls) = 2 * iter + 2))
    /\ [][calls' # calls =>
             /\ stack = <<>>
             /\ player_id = 1 =>
                   /\ calls[Len(calls)].player = 0
                   /\ calls[Len(calls)].iter = iter
                   /\ root_result # NoResult
                   /\ EventsOf(trace, "updateRegrets") # {}
                   /\ trainables # prev]_vars

\* the traversal of player 1 of the second iteration is running
C9_Witness == pc = "run" /\ player_id = 1 /\ Len(calls) = 4

-----------------------------------------------------------------------------
(* Properties of the leaves *)

\* the leaf call that produced root_result
LastLeaf == calls[Len(calls)]
LeafCalled(op) == calls # <<>> /\ LastLeaf.op = op

Uniform(v) == \A i \in DOMAIN v : v[i] = v[0]

\* the opponent hands that share at least one card with hand h of the player
SharingHands(player, h) ==
    {o \in DOMAIN ranges[1 - player] :
        boardsHasIntercept(HandCards(ranges[player][h].hand),
                           HandCards(ranges[1 - player][o].hand))}

\* C21: at a terminal node with payoff P for the traversing player and the same reach r for
\* every opponent hand, every hand h of the traversing player that is off the board gets
\* payoffs[h] = P * r * (number of opponent hands - number of opponent hands sharing a card
\* with h); an opponent hand equal to h is counted once among the sharing hands.
C21_FoldPayoffCountsBlockersOnce ==
    (LeafCalled("terminalUtility") /\ Uniform(LastLeaf.reach_probs)) =>
        LET player == LastLeaf.player
            P == Tree[LastLeaf.node].payoffs[player + 1]
            r == LastLeaf.reach_probs[0]
            n == Size(ranges[1 - player])
        IN \A h \in DOMAIN ranges[player] :
              ~boardsHasIntercept(HandCards(ranges[player][h].hand), LastLeaf.current_board) =>
                  root_result.payoffs[h] =
                      FMul(P, FMul(r, FromInt(n - Cardinality(SharingHands(player, h)))))

\* a fold node was evaluated with a positive uniform reach for a hand off the board that the
\* opponent holds too, next to another opponent hand sharing one card with it
C21_Witness ==
    /\ LeafCalled("terminalUtility")
    /\ Uniform(LastLeaf.reach_probs)
    /\ LastLeaf.reach_probs[0] > 0
    /\ \E h \in DOMAIN ranges[LastLeaf.player] :
          /\ ~boardsHasIntercept(HandCards(ranges[LastLeaf.player][h].hand),
                                 LastLeaf.current_board)
          /\ indPlayer2Player(LastLeaf.player, 1 - LastLeaf.player, h) # -1
          /\ Cardinality(SharingHands(LastLeaf.player, h)) >= 2
          /\ root_result.payoffs[h] # 0

\* total reach of the opponent hands off the board that share no card with hand h of the
\* player and whose rank relates to the rank of h as asked (Stronger: lower rank)
ReachOfHands(player, h, reach_probs, board, stronger) ==
    LET oppo == 1 - player
        hand == ranges[player][h].hand
        counts(o) ==
            /\ ~boardsHasIntercept(HandCards(ranges[oppo][o].hand), board)
            /\ ~boardsHasIntercept(HandCards(ranges[oppo][o].hand), HandCards(hand))
            /\ IF stronger
               THEN HandRank(ranges[oppo][o].hand, board) < HandRank(hand, board)
               ELSE HandRank(ranges[oppo][o].hand, board) > HandRank(hand, board)
    IN SumTo([o \in DOMAIN ranges[oppo] |-> IF counts(o) THEN reach_probs[o] ELSE 0],
             Size(ranges[oppo]))

\* C22: at a showdown node, with the river lists of both players sorted by rank ascending, every
\* hand h of the traversing player gets payoffs[h] = eff_win * W + eff_loss * L, eff_win being
\* the total reach of the opponent hands that h strictly beats and that share no card with h,
\* eff_loss that of the opponent hands that strictly beat h and share no card with h; opponent
\* hands of the rank of h are in neither.
C22_ShowdownPayoff ==
    LeafCalled("showdownUtility") =>
        LET player == LastLeaf.player
            board == LastLeaf.current_board
            eff_win(h) == ReachOfHands(player, h, LastLeaf.reach_probs, board, FALSE)
            eff_loss(h) == ReachOfHands(player, h, LastLeaf.reach_probs, board, TRUE)
        IN \A h \in DOMAIN ranges[player] :
              ~boardsHasIntercept(HandCards(ranges[player][h].hand), board) =>
                  root_result.payoffs[h] =
                      FAdd(FMul(eff_win(h), Tree[LastLeaf.node].win),
                           FMul(eff_loss(h), Tree[LastLeaf.node].lose))

-----------------------------------------------------------------------------
(* Properties of the values at the root *)

\* sum over the hands of player p of reach_p[h] * payoffs[h], reach_p being the initial weights
RootValue(p, result) ==
    SumTo([h \in DOMAIN ranges[p] |-> FMul(getReachProbs[p][h], result.payoffs[h])],
          Size(ranges[p]))

\* the root call of player 1 returns; root_result still holds what the root call of player 0
\* of the same iteration returned
SecondRootReturn == pc = "run" /\ Len(stack) = 1 /\ ~Pending(TopFrame) /\ player_id = 1

\* what the rounding of the float operations of a traversal may add up to: 2^-10
RoundingSlack == FDiv(One, FromInt(1024))

\* C23: in every iteration the values of the two root traversals cancel: the sum over the hands
\* of player 0 of reach_0[h] * payoffs_0[h] plus the sum over the hands of player 1 of
\* reach_1[h] * payoffs_1[h] is 0 (up to the rounding of the float operations), the leaves of
\* the tree being zero-sum.
C23_ZeroSumAtRoot ==
    [][SecondRootReturn =>
          FAbs(FAdd(RootValue(0, root_result), RootValue(1, root_result'))) <= RoundingSlack]_vars

-----------------------------------------------------------------------------
(* Properties of the constructor *)

SetupInputs == calls[1]
InputOf(p) == IF p = 0 THEN SetupInputs.range1 ELSE SetupInputs.range2
DuplicateFree(private_range) ==
    \A i \in DOMAIN private_range : \A j \in DOMAIN private_range :
        i # j => HandCards(private_range[i].hand) # HandCards(private_range[j].hand)
OffInitialBoard(private_range) ==
    {k \in DOMAIN private_range :
        ~boardsHasIntercept(HandCards(private_range[k].hand), cfg.initial_board)}

\* C24: for a list without duplicates the range of a player holds exactly the hands of the list
\* that are off the initial board, in the order of the list: the hand at position i of the range
\* is the one of the list that has i hands off the board before it.
C24_RangeIsFilteredInput ==
    pc = "setup" =>
        \A p \in 0..1 :
            /\ DuplicateFree(InputOf(p))
            /\ Size(ranges[p]) = Cardinality(OffInitialBoard(InputOf(p)))
            /\ \A k \in OffInitialBoard(InputOf(p)) :
                  ranges[p][Cardinality({j \in OffInitialBoard(InputOf(p)) : j < k})]
                      = InputOf(p)[k]

\* a solver was built from a list of three hands whose middle hand lies on the board
C24_Witness ==
    /\ pc = "setup"
    /\ Size(SetupInputs.range1) = 3
    /\ OffInitialBoard(SetupInputs.range1) = {0, 2}
    /\ Size(ranges[0]) = 2

\* the constructor ran with the accepted trainer on the tree as it is
PlainSetup ==
    /\ pc # "new"
    /\ SetupInputs.trainer = "discounted_cfr"
    /\ SetupInputs.rounds = [n \in ActionNodes |-> Tree[n].round]

\* C25: building the ranges fails, and no solver is built, exactly when one of the two lists
\* holds the same hand twice, whether that hand overlaps the initial board or not.
C25_FailsOnDuplicatesOnly ==
    /\ PlainSetup =>
          (pc = "failed" <=> ~(DuplicateFree(SetupInputs.range1) /\ DuplicateFree(SetupInputs.range2)))
    /\ pc = "failed" => ranges = <<>>
    /\ (pc # "new" /\ ~(DuplicateFree(SetupInputs.range1) /\ DuplicateFree(SetupInputs.range2))) =>
          (pc = "failed" /\ trainables = <<>>)

\* the constructor failed on a list whose only repeated hand lies on the initial board
C25_Witness ==
    /\ PlainSetup
    /\ pc = "failed"
    /\ DuplicateFree(SetupInputs.range2)
    /\ \E i \in DOMAIN SetupInputs.range1 : \E j \in DOMAIN SetupInputs.range1 :
          i # j /\ SetupInputs.range1[i].hand = SetupInputs.range1[j].hand
    /\ \A i \in DOMAIN SetupInputs.range1 : \A j \in DOMAIN SetupInputs.range1 :
          (i # j /\ SetupInputs.range1[i].hand = SetupInputs.range1[j].hand)
              => boardsHasIntercept(HandCards(SetupInputs.range1[i].hand), cfg.initial_board)

\* the first action node, in the order of setTrainable, that setTrainable refuses
Offending ==
    IF SetupInputs.trainer # "discounted_cfr" THEN {Root}
    ELSE LET bad == {n \in ActionNodes : SetupInputs.rounds[n] \notin {0, 1, 2}}
         IN {n \in bad : \A m \in bad : n <= m}

\* C26: with trainer "cfr_plus", with an unknown trainer, or with an action node more than two
\* rounds after the root the constructor fails: no solver exists that could train, and the
\* offending node has no trainable table.  Only "discounted_cfr" on a tree whose action nodes
\* lie 0, 1 or 2 rounds after the root is accepted, and then the table of a node has 1, D + 1
\* or D * D + D + 1 slots, D being the number of cards of the deck.
C26_SetupRefusesTrainersAndGaps ==
    (pc # "new" /\ DuplicateFree(SetupInputs.range1) /\ DuplicateFree(SetupInputs.range2)) =>
        /\ pc = "setup" <=> Offending = {}
        /\ pc = "failed" <=> Offending # {}
        /\ \A n \in Offending : n \notin DOMAIN trainables
        /\ pc = "setup" =>
              /\ DOMAIN trainables = ActionNodes
              /\ \A n \in ActionNodes :
                    Size(trainables[n]) =
                        CASE SetupInputs.rounds[n] = 0 -> 1
                          [] SetupInputs.rounds[n] = 1 -> card_num + 1
                          [] SetupInputs.rounds[n] = 2 -> card_num * card_num + card_num + 1

\* the constructor failed at the action node three rounds after the root, after it had given
\* the nodes before it their tables
C26_Witness ==
    /\ pc = "failed"
    /\ SetupInputs.trainer = "discounted_cfr"
    /\ \E n \in Offending : n # Root /\ SetupInputs.rounds[n] = 3 /\ Root \in DOMAIN trainables

-----------------------------------------------------------------------------
(* Properties of the strategies during train() *)

\* the trainables whose regrets were written since construction
Written ==
    {nd \in {q \in ActionNodes \X (0..(card_num * card_num + card_num)) :
                q[2] < TrainableNum(q[1])} :
        \/ trainables[nd[1]][nd[2]].r_plus
              # Zeros(NumActions(nd[1]) * Size(ranges[Tree[nd[1]].player]))
        \/ trainables[nd[1]][nd[2]].r_plus_sum # Zeros(Size(ranges[Tree[nd[1]].player]))}

\* the sum over the actions of the current strategy of hand h
StrategySum(strategy, action_number, card_number, h) ==
    SumTo([a \in 0..(action_number - 1) |-> strategy[a * card_number + h]], action_number)

\* getcurrentStrategy of the trainable is a distribution over the actions for every hand, up to
\* the rounding of the divisions and of the sum: within one float per action of 1.0
IsDistribution(t, action_number, card_number) ==
    LET strategy == getcurrentStrategy(t, action_number, card_number)
    IN /\ \A index \in DOMAIN strategy : strategy[index] >= 0
       /\ \A h \in 0..(card_number - 1) :
             Near(StrategySum(strategy, action_number, card_number, h), One, action_number)

\* C27: in every state of train(), before, at and after the warmup boundary, getcurrentStrategy
\* of every trainable gives every hand a probability distribution over the actions: no entry
\* is negative and the entries of a hand sum to 1; so too for trainables that only
\* copyStrategy has written.
C27_CurrentStrategyIsDistribution ==
    /\ \A n \in ActionNodes :
          IsDistribution(NewTrainable(NumActions(n), Size(ranges[Tree[n].player])),
                         NumActions(n), Size(ranges[Tree[n].player]))
    /\ \A nd \in Written :
          IsDistribution(trainables[nd[1]][nd[2]], NumActions(nd[1]),
                         Size(ranges[Tree[nd[1]].player]))

\* after the warmup boundary one trainable holds regrets that only copyStrategy wrote, and
\* another holds regrets of its own with a positive sum
C27_Witness ==
    /\ iter > cfg.warmup
    /\ \E nd \in Written :
          /\ trainables[nd[1]][nd[2]].r_plus_sum = Zeros(Size(ranges[Tree[nd[1]].player]))
          /\ \E index \in DOMAIN trainables[nd[1]][nd[2]].r_plus :
                trainables[nd[1]][nd[2]].r_plus[index] > 0
    /\ \E nd \in Written :
          \E h \in DOMAIN trainables[nd[1]][nd[2]].r_plus_sum :
             trainables[nd[1]][nd[2]].r_plus_sum[h] > 0

-----------------------------------------------------------------------------
(* Properties of the reach vectors *)

\* the opponent hands that hold a card dealt since the root
HoldsDealt(board) ==
    {h \in DOMAIN ranges[1 - player_id] :
        boardsHasIntercept(HandCards(ranges[1 - player_id][h].hand), board \ cfg.initial_board)}

\* the call with these arguments gives reach 0 to the hands holding a dealt card, and to the
\* hands that had reach 0 in the call it is made from
ZeroKept(call, caller) ==
    /\ \A h \in HoldsDealt(call.current_board) : call.reach_probs[h] = 0
    /\ \A h \in DOMAIN caller.reach_probs : caller.reach_probs[h] = 0 => call.reach_probs[h] = 0

\* C28: at every node cfr reaches, the reach vector holds 0 for every opponent hand with a card
\* dealt since the root (a card of current_board that is not in initial_board), and an entry
\* that is 0 at a node is 0 in every call made below it.
C28_DealtHandsHaveNoReach ==
    /\ [](pc = "run" =>
            /\ \A h \in HoldsDealt(stack[1].current_board) : stack[1].reach_probs[h] = 0
            /\ \A j \in 2..Len(stack) : ZeroKept(stack[j], stack[j - 1]))
    /\ [][LeafReturn => ZeroKept(NextChild(player_id, TopFrame), TopFrame)]_vars

\* the traversal is at the node after two dealt cards; an opponent hand holds one of them, and
\* another opponent hand still has reach
C28_Witness ==
    /\ pc = "run"
    /\ Len(stack) >= 2
    /\ Cardinality(TopFrame.current_board \ cfg.initial_board) = 2
    /\ HoldsDealt(TopFrame.current_board) # {}
    /\ \E h \in DOMAIN TopFrame.reach_probs : TopFrame.reach_probs[h] > 0

-----------------------------------------------------------------------------
(* Properties of the payoffs of hands on the board *)

\* the hands of the traversing player that overlap the board
OnBoard(board) ==
    {h \in DOMAIN ranges[player_id] :
        boardsHasIntercept(board, HandCards(ranges[player_id][h].hand))}

ZeroOnBoard(result, board) == \A h \in OnBoard(board) : result.payoffs[h] = 0

\* C29: the payoffs a node returns are 0 for every hand of the traversing player that overlaps
\* the current board of the node: at terminal and showdown nodes, and after the accumulation
\* of an action node and of a chance node, results taken over from another suit through
\* exchange_color included.
C29_OnBoardHandsGetNothing ==
    /\ [][LeafReturn =>
            ZeroOnBoard(LeafReturned, NextChild(player_id, TopFrame).current_board)]_vars
    /\ [][(pc = "run" /\ ~Pending(TopFrame)) =>
            ZeroOnBoard(Returned, TopFrame.current_board)]_vars
    /\ [](pc = "run" =>
            \A j \in 1..Len(stack) : \A s \in DOMAIN stack[j].results :
                Size(stack[j].results[s].payoffs) # 0 =>
                    ZeroOnBoard(stack[j].results[s], stack[j].current_board))

\* a chance node that holds a dealt card on its board is about to return; a hand of the
\* traversing player overlaps that card; one of its branches was skipped for a card whose suit
\* takes the result of another suit, and that result gives some hand a payoff
C29_Witness ==
    /\ pc = "run"
    /\ ~Pending(TopFrame)
    /\ Tree[TopFrame.node].type = CHANCE_NODE
    /\ OnBoard(TopFrame.current_board) # {}
    /\ \E card \in Deck \ TopFrame.current_board :
          /\ color_iso_offset[TopFrame.deal][SuitOf(card)] < 0
          /\ LET from == TopFrame.results[card + color_iso_offset[TopFrame.deal][SuitOf(card)]]
             IN \E h \in DOMAIN from.payoffs : from.payoffs[h] # 0

-----------------------------------------------------------------------------
(* Properties of the reach vectors at action nodes *)

\* the frame is an action node at which the opponent of the traversing player acts
OpponentNode(f) == Tree[f.node].type = ACTION_NODE /\ Tree[f.node].player # player_id
OwnActionNode(f) == Tree[f.node].type = ACTION_NODE /\ Tree[f.node].player = player_id

\* the reach vector the child call for action a of the frame is given
ChildReach(f, a) == actionUtilityChild(player_id, [f EXCEPT !.k = a]).reach_probs

\* the reach vectors of the children of f add up to the reach of f, up to the rounding of one
\* quotient (in the strategy) and one product per action: within two floats per action
Partition(f) ==
    \A h \in DOMAIN f.reach_probs :
        LET sum == SumTo([a \in 0..(NumActions(f.node) - 1) |-> ChildReach(f, a)[h]],
                         NumActions(f.node))
        IN Near(sum, f.reach_probs[h], 2 * NumActions(f.node))

\* C30: at an action node of the opponent the reach vectors given to the children split the
\* reach of the node: for every opponent hand h the sum over the actions a of new_reach_a[h] is
\* reach_probs[h]; the payoffs of the node are the sum of the payoffs of its children, without
\* weights.  At an action node of the traversing player every child is given reach_probs as
\* it is.
C30_OpponentReachIsPartitioned ==
    /\ [](pc = "run" =>
            \A j \in 1..Len(stack) :
                /\ OpponentNode(stack[j]) => Partition(stack[j])
                /\ (j < Len(stack) /\ Tree[stack[j].node].type = ACTION_NODE) =>
                       stack[j + 1].reach_probs = ChildReach(stack[j], stack[j].k)
                /\ (j < Len(stack) /\ OwnActionNode(stack[j])) =>
                       stack[j + 1].reach_probs = stack[j].reach_probs)
    /\ [][(LeafReturn /\ OwnActionNode(TopFrame)) =>
             NextChild(player_id, TopFrame).reach_probs = TopFrame.reach_probs]_vars
    /\ [][(pc = "run" /\ ~Pending(TopFrame) /\ OpponentNode(TopFrame)) =>
             \A h \in DOMAIN ranges[player_id] :
                 Returned.payoffs[h] =
                     SumTo([a \in 0..(NumActions(TopFrame.node) - 1) |->
                              TopFrame.results[a].payoffs[h]], NumActions(TopFrame.node))]_vars

\* an action node of the opponent returns; the opponent plays a strategy that is not the
\* uniform one, some opponent hand has reach, and some hand gets a payoff
C30_Witness ==
    /\ pc = "run"
    /\ ~Pending(TopFrame)
    /\ OpponentNode(TopFrame)
    /\ \E h \in DOMAIN TopFrame.reach_probs :
          /\ TopFrame.reach_probs[h] > 0
          /\ TopFrame.current_strategy[h] \notin {0, Reciprocals[NumActions(TopFrame.node)], One}
    /\ \E a \in 0..(NumActions(TopFrame.node) - 1) :
          \E h \in DOMAIN TopFrame.results[a].payoffs : TopFrame.results[a].payoffs[h] # 0

====
